---- MODULE Spec2Model ----
(***************************************************************************)
(* Model of the superset-portable seeding pipeline                         *)
(* (setup/create_rzd_dashboard.py): the dataset materializer that builds   *)
(* examples.db from the demo CSV files, and the transaction against the    *)
(* Superset metadata store superset.db (cleanup, connection registrar,     *)
(* dataset registrar, chart registrar, dashboard registrar, commit or      *)
(* rollback).                                                              *)
(*                                                                         *)
(* Text.  TLA+ strings are ASCII, so a text value is a sequence of         *)
(* characters: an ASCII character is a one-character string, a Cyrillic    *)
(* letter is "u:" followed by its one-letter transliteration (case kept),  *)
(* and the rouble sign is "u:RUBLE".  Transliteration, one letter each:    *)
(*   a b v g d e j z i 1 k l m n o p r s t u f h c q w x 2 3 4 5 6         *)
(*   а б в г д е ж з и й к л м н о п р с т у ф х ц ч ш щ ы ь э ю я         *)
(***************************************************************************)
EXTENDS Integers, Sequences, FiniteSets, TLC

\* ------------------------------------------------------------------ text

Punct == {" ", "(", ")", ".", "_", "-", "%"}

\* an ASCII literal as a sequence of characters
A(s) == [i \in 1..Len(s) |-> SubSeq(s, i, i)]

\* a literal with Cyrillic letters (transliterated); punctuation stays ASCII
C(s) == [i \in 1..Len(s) |->
            IF SubSeq(s, i, i) \in Punct THEN SubSeq(s, i, i)
            ELSE "u:" \o SubSeq(s, i, i)]

RUBLE == <<"u:RUBLE">>

UpperAZ == A("ABCDEFGHIJKLMNOPQRSTUVWXYZ")
LowerAZ == A("abcdefghijklmnopqrstuvwxyz")

UpperSet == {UpperAZ[i] : i \in 1..26}

FoldMap == [c \in UpperSet |-> LowerAZ[CHOOSE k \in 1..26 : UpperAZ[k] = c]]

\* SQLite's LIKE folds the case of ASCII letters only
Fold(c) == IF c \in UpperSet THEN FoldMap[c] ELSE c

\* SQL LIKE on s from position i and pattern p from position j:
\* '%' matches any run of characters, '_' exactly one character
RECURSIVE LikeFrom(_, _, _, _)
LikeFrom(s, i, p, j) ==
    IF j > Len(p) THEN i > Len(s)
    ELSE IF p[j] = "%"
         THEN LikeFrom(s, i, p, j + 1) \/ (i <= Len(s) /\ LikeFrom(s, i + 1, p, j))
         ELSE /\ i <= Len(s)
              /\ (p[j] = "_" \/ p[j] = s[i] \/ Fold(p[j]) = Fold(s[i]))
              /\ LikeFrom(s, i + 1, p, j + 1)

Like(s, p) == LikeFrom(s, 1, p, 1)

Max(S) == CHOOSE m \in S : \A x \in S : x <= m

\* cur.lastrowid of an INSERT into a table with an INTEGER PRIMARY KEY:
\* SQLite assigns the largest id in use plus one
lastrowid(rows) == IF rows = {} THEN 1 ELSE Max({r.id : r \in rows}) + 1

\* ------------------------------------------------ CSV files and parsing

Digits == "0123456789"

IsDigit(c) == \E i \in 1..10 : SubSeq(Digits, i, i) = c

DigitVal(c) == (CHOOSE i \in 1..10 : SubSeq(Digits, i, i) = c) - 1

AllDigits(s) == Len(s) > 0 /\ \A i \in 1..Len(s) : IsDigit(SubSeq(s, i, i))

Unsigned(s) ==
    IF Len(s) > 0 /\ SubSeq(s, 1, 1) \in {"+", "-"} THEN SubSeq(s, 2, Len(s)) ELSE s

\* int(v) succeeds: an optional sign and decimal digits
IsInt(v) == AllDigits(Unsigned(v))

RECURSIVE DigitsVal(_)
DigitVal10(s) == DigitVal(SubSeq(s, Len(s), Len(s)))
DigitsVal(s) ==
    IF Len(s) = 0 THEN 0
    ELSE 10 * DigitsVal(SubSeq(s, 1, Len(s) - 1)) + DigitVal10(s)

\* int(v)
ToInt(v) ==
    IF SubSeq(v, 1, 1) = "-" THEN 0 - DigitsVal(Unsigned(v)) ELSE DigitsVal(Unsigned(v))

DotAt(s) == {i \in 1..Len(s) : SubSeq(s, i, i) = "."}

\* float(v) succeeds: an integer, or digits around one decimal point
IsFloat(v) ==
    LET u == Unsigned(v) IN
    \/ AllDigits(u)
    \/ /\ Cardinality(DotAt(u)) = 1
       /\ LET d == CHOOSE i \in DotAt(u) : TRUE
              ip == SubSeq(u, 1, d - 1)
              fp == SubSeq(u, d + 1, Len(u))
          IN  /\ Len(ip) + Len(fp) > 0
              /\ \A i \in 1..Len(ip) : IsDigit(SubSeq(ip, i, i))
              /\ \A i \in 1..Len(fp) : IsDigit(SubSeq(fp, i, i))

\* float(v) as <<mantissa, number of decimals>>
ToFloat(v) ==
    LET u == Unsigned(v)
        sgn == IF SubSeq(v, 1, 1) = "-" THEN 0 - 1 ELSE 1
    IN  IF DotAt(u) = {} THEN <<sgn * DigitsVal(u), 0>>
        ELSE LET d == CHOOSE i \in DotAt(u) : TRUE
             IN  <<sgn * DigitsVal(SubSeq(u, 1, d - 1) \o SubSeq(u, d + 1, Len(u))),
                   Len(u) - d>>

\* the number of leading rows infer_schema samples
SampleRows == 50

\* a loop of guess_sqlite_type runs to its end: the first loop returns at a
\* value that neither int nor float accepts, the second at one that int does
\* not accept; both skip empty values
RECURSIVE LoopEnds(_, _)
LoopEnds(values, loop) ==
    IF values = <<>> THEN TRUE
    ELSE LET v == Head(values) IN
         IF v = "" THEN LoopEnds(Tail(values), loop)
         ELSE IF IsInt(v) THEN LoopEnds(Tail(values), loop)
         ELSE IF loop = 1 /\ IsFloat(v) THEN LoopEnds(Tail(values), loop)
         ELSE FALSE

guess_sqlite_type(values) ==
    IF ~LoopEnds(values, 1) THEN "TEXT"
    ELSE IF ~LoopEnds(values, 2) THEN "REAL"
    ELSE "INTEGER"

\* [r[i] for r in rows if i < len(r)]
RECURSIVE ColValues(_, _)
ColValues(rows, i) ==
    IF rows = <<>> THEN <<>>
    ELSE (IF i <= Len(Head(rows)) THEN <<Head(rows)[i]>> ELSE <<>>)
         \o ColValues(Tail(rows), i)

\* the whole list
FirstRows_all(rows, n) == rows

\* rows[:n]
FirstRows(rows, n) == SubSeq(rows, 1, IF Len(rows) < n THEN Len(rows) ELSE n)

\* the last header left out
infer_schema_short(headers, rows) ==
    [i \in 1..(Len(headers) - 1) |->
        <<headers[i], guess_sqlite_type(ColValues(FirstRows(rows, SampleRows), i))>>]

infer_schema(headers, rows) ==
    [i \in 1..Len(headers) |->
        <<headers[i], guess_sqlite_type(ColValues(FirstRows(rows, SampleRows), i))>>]

CSV_FILES == << "rzd_stations.csv", "rzd_stations_full.csv",
                "rzd_monthly_stats.csv", "rzd_cargo_types.csv",
                "rzd_daily_operations.csv", "rzd_incidents.csv",
                "rzd_kpi_metrics.csv", "rzd_routes.csv" >>

CsvNames == {CSV_FILES[i] : i \in 1..Len(CSV_FILES)}

\* a file of DEMO_DATA_DIR: missing, or the lines csv.reader yields
NoFile == [exists |-> FALSE, lines |-> <<>>]

CsvFile(lines) == [exists |-> TRUE, lines |-> lines]

\* load_csv: ([], []) for a missing file, else (first line, other lines);
\* next(reader) raises StopIteration on a file without lines
load_csv_raises(fs, filename) == fs[filename].exists /\ fs[filename].lines = <<>>

load_csv(fs, filename) ==
    IF ~fs[filename].exists THEN [headers |-> <<>>, rows |-> <<>>]
    ELSE [headers |-> Head(fs[filename].lines), rows |-> Tail(fs[filename].lines)]

\* filename.replace(".csv", "")
RECURSIVE StripCsv(_)
StripCsv(f) ==
    IF Len(f) < 4 THEN f
    ELSE IF SubSeq(f, 1, 4) = ".csv" THEN StripCsv(SubSeq(f, 5, Len(f)))
         ELSE SubSeq(f, 1, 1) \o StripCsv(SubSeq(f, 2, Len(f)))

\* ------------------------------------- phase 1: the examples store

NULL == <<"null">>

\* the value bound to one placeholder of the INSERT
Converted(row, i, typ) ==
    IF i > Len(row) THEN NULL
    ELSE IF row[i] = "" THEN NULL
    ELSE IF typ = "INTEGER"
         THEN (IF IsInt(row[i]) THEN <<"int", ToInt(row[i])>> ELSE <<"text", row[i]>>)
    ELSE IF typ = "REAL"
         THEN (IF IsFloat(row[i]) THEN <<"real", ToFloat(row[i])>> ELSE <<"text", row[i]>>)
    ELSE <<"text", row[i]>>

ConvertedRow(row, schema) == [i \in 1..Len(schema) |-> Converted(row, i, schema[i][2])]

\* examples.db: no file, or the set of its tables
NoDb == [exists |-> FALSE, tables |-> {}]

\* CREATE TABLE raises on a repeated column name
CreateTableRaises(headers) ==
    \E i, j \in 1..Len(headers) : i # j /\ headers[i] = headers[j]

\* the body of the loop over CSV_FILES for one file
MaterializeFile(tabs, fs, filename) ==
    LET table_name == StripCsv(filename)
        csv        == load_csv(fs, filename)
        schema     == infer_schema(csv.headers, csv.rows)
    IN  IF csv.headers = <<>> THEN tabs
        ELSE {t \in tabs : t.name # table_name}
             \cup {[name   |-> table_name,
                    schema |-> schema,
                    rows   |-> [k \in 1..Len(csv.rows) |->
                                    ConvertedRow(csv.rows[k], schema)]]}

FileRaises(fs, filename) ==
    \/ load_csv_raises(fs, filename)
    \/ CreateTableRaises(load_csv(fs, filename).headers)

RECURSIVE MaterializeFrom(_, _, _)
MaterializeFrom(tabs, fs, n) ==
    IF n = 0 THEN tabs
    ELSE MaterializeFile(MaterializeFrom(tabs, fs, n - 1), fs, CSV_FILES[n])

\* the old file kept
UnlinkExamples_kept(old) == old

\* if EXAMPLES_DB.exists(): EXAMPLES_DB.unlink()
UnlinkExamples(old) == NoDb

\* sqlite3.connect opens the file, creating an empty database when missing
ConnectExamples(db) == IF db.exists THEN db ELSE [exists |-> TRUE, tables |-> {}]

\* create_examples_db when no file raises
create_examples_db(old, fs) ==
    LET conn == ConnectExamples(UnlinkExamples(old))
    IN  [exists |-> TRUE, tables |-> MaterializeFrom(conn.tables, fs, Len(CSV_FILES))]

create_examples_db_raises(fs) ==
    \E n \in 1..Len(CSV_FILES) : FileRaises(fs, CSV_FILES[n])

\* ------------------------------- phase 2-4: the metadata store superset.db

UUIDS == [db_examples      |-> "a2dc77af-e654-49bb-b321-40f6b559a1ee",
          ds_stations      |-> "d1000001-0001-0001-0001-000000000001",
          ds_monthly       |-> "d1000002-0002-0002-0002-000000000002",
          ds_cargo         |-> "d1000003-0003-0003-0003-000000000003",
          ds_daily         |-> "d1000004-0004-0004-0004-000000000004",
          ds_incidents     |-> "d1000005-0005-0005-0005-000000000005",
          ds_kpi           |-> "d1000006-0006-0006-0006-000000000006",
          ch_total_pass    |-> "c2000001-0001-0001-0001-000000000001",
          ch_monthly_bar   |-> "c2000002-0002-0002-0002-000000000002",
          ch_cargo_pie     |-> "c2000003-0003-0003-0003-000000000003",
          ch_stations_tbl  |-> "c2000004-0004-0004-0004-000000000004",
          ch_daily_line    |-> "c2000005-0005-0005-0005-000000000005",
          ch_incidents_bar |-> "c2000006-0006-0006-0006-000000000006",
          dashboard        |-> "d3000001-0001-0001-0001-000000000001"]

\* uuid.UUID(hex_str).bytes: the 16 bytes, written here as 32 hex digits
uuid_bytes(hex_str) ==
    [bytes |-> SubSeq(hex_str, 1, 8) \o SubSeq(hex_str, 10, 13)
               \o SubSeq(hex_str, 15, 18) \o SubSeq(hex_str, 20, 23)
               \o SubSeq(hex_str, 25, 36)]

DATASETS ==
    << [key |-> "ds_stations",  table_name |-> "rzd_stations",
        csv |-> "rzd_stations.csv",         main_dttm_col |-> "None"],
       [key |-> "ds_monthly",   table_name |-> "rzd_monthly_stats",
        csv |-> "rzd_monthly_stats.csv",    main_dttm_col |-> "None"],
       [key |-> "ds_cargo",     table_name |-> "rzd_cargo_types",
        csv |-> "rzd_cargo_types.csv",      main_dttm_col |-> "None"],
       [key |-> "ds_daily",     table_name |-> "rzd_daily_operations",
        csv |-> "rzd_daily_operations.csv", main_dttm_col |-> "date"],
       [key |-> "ds_incidents", table_name |-> "rzd_incidents",
        csv |-> "rzd_incidents.csv",        main_dttm_col |-> "date"],
       [key |-> "ds_kpi",       table_name |-> "rzd_kpi_metrics",
        csv |-> "rzd_kpi_metrics.csv",      main_dttm_col |-> "None"] >>

\* the test of the name before the tests of the type
get_columns_from_csv_date_first(fs, csv_filename) ==
    LET csv    == load_csv(fs, csv_filename)
        schema == infer_schema(csv.headers, csv.rows)
    IN  [i \in 1..Len(schema) |->
            [column_name |-> schema[i][1],
             type        |-> IF schema[i][2] = "INTEGER" THEN "INTEGER"
                             ELSE IF schema[i][2] = "REAL" THEN "FLOAT"
                             ELSE "STRING",
             is_dttm     |-> schema[i][1] = "date",
             groupby     |-> schema[i][2] # "REAL",
             filterable  |-> TRUE]]

get_columns_from_csv(fs, csv_filename) ==
    LET csv    == load_csv(fs, csv_filename)
        schema == infer_schema(csv.headers, csv.rows)
    IN  [i \in 1..Len(schema) |->
            [column_name |-> schema[i][1],
             type        |-> IF schema[i][1] = "date" THEN "STRING"
                             ELSE IF schema[i][2] = "INTEGER" THEN "INTEGER"
                             ELSE IF schema[i][2] = "REAL" THEN "FLOAT"
                             ELSE "STRING",
             is_dttm     |-> schema[i][1] = "date",
             groupby     |-> schema[i][2] # "REAL",
             filterable  |-> TRUE]]

\* the name patterns of the two statements that catch charts by name
SliceNamePatterns ==
    { C("%RJD%"), A("%RZD%"), C("%Passajir%"), C("%gruzov%"),
      C("%Stanci%"), C("%Incident%"), A("%KPI%"), C("%V2ruqka%") }

RzdPattern == A("rzd_%")

NamedRzdSlice(s) ==
    \/ \E p \in SliceNamePatterns : Like(s.slice_name, p)
    \/ Like(A(s.datasource_name), RzdPattern)

\* the pattern without its prefix
RzdTable_any(t) == Like(A(t.table_name), A("%"))

RzdTable(t) == Like(A(t.table_name), RzdPattern)

\* the DELETE FROM tables left out
DeleteRzdTables_skipped(tables) == tables

\* DELETE FROM tables WHERE table_name LIKE 'rzd_%'
DeleteRzdTables(tables) == {t \in tables : ~RzdTable(t)}

\* the links of the deleted charts left in place
DeleteLinksOfSlices_skipped(links, slice_ids) == links

\* DELETE FROM dashboard_slices WHERE slice_id IN (rzd_slice_ids)
DeleteLinksOfSlices(links, slice_ids) == {l \in links : l.slice_id \notin slice_ids}

clean_old_rzd_data(db) ==
    LET rzd_table_ids == {t.id : t \in {x \in db.tables : RzdTable(x)}}
        by_dataset    == IF rzd_table_ids = {} THEN {}
                         ELSE {x.id : x \in {y \in db.slices :
                                                y.datasource_id \in rzd_table_ids}}
        rzd_slice_ids == by_dataset
                         \cup {x.id : x \in {y \in db.slices : NamedRzdSlice(y)}}
        rzd_dash_ids  == {d.id : d \in {x \in db.dashboards : x.slug = "rzd_analytics"}}
        \* 3. dashboard_slices
        links1  == {l \in db.dashboard_slices : l.dashboard_id \notin rzd_dash_ids}
        links2  == DeleteLinksOfSlices(links1, rzd_slice_ids)
        \* 4. charts
        slices1 == {x \in db.slices : x.id \notin rzd_slice_ids}
        slices2 == {x \in slices1 : ~NamedRzdSlice(x)}
        \* 5. columns
        cols1   == {c \in db.table_columns : c.table_id \notin rzd_table_ids}
        \* 6. datasets
        tables1 == DeleteRzdTables(db.tables)
        \* 7. dashboard
        dash1   == {d \in db.dashboards : d.slug # "rzd_analytics"}
        \* 8. orphaned table_columns
        cols2   == {c \in cols1 : c.table_id \in {t.id : t \in tables1}}
    IN  [db EXCEPT !.dashboard_slices = links2, !.slices = slices2,
                   !.table_columns = cols2, !.tables = tables1,
                   !.dashboards = dash1]

\* str(EXAMPLES_DB).replace("\\", "/")
RECURSIVE ForwardSlashes(_)
ForwardSlashes(path) ==
    IF Len(path) = 0 THEN path
    ELSE (IF SubSeq(path, 1, 1) = "\\" THEN "/" ELSE SubSeq(path, 1, 1))
         \o ForwardSlashes(SubSeq(path, 2, Len(path)))

portable_uri(examples_path) == "sqlite:///" \o ForwardSlashes(examples_path)

\* the name compared in another case
ExamplesRows_wrong_case(db) == {r \in db.dbs : r.database_name = "Examples"}

\* SELECT id FROM dbs WHERE database_name = 'examples'
ExamplesRows(db) == {r \in db.dbs : r.database_name = "examples"}

\* fix_examples_db_connection; row is what fetchone returned (an 'examples'
\* row), or no row at all
fix_examples_db_connection(db, has_row, row, examples_path) ==
    IF has_row
    THEN [db_id |-> row.id,
          db    |-> [db EXCEPT !.dbs =
                        {IF r.id = row.id
                         THEN [r EXCEPT !.sqlalchemy_uri = portable_uri(examples_path),
                                        !.uuid = uuid_bytes(UUIDS.db_examples),
                                        !.allow_file_upload = 1,
                                        !.expose_in_sqllab = 1,
                                        !.allow_dml = 1]
                         ELSE r : r \in db.dbs}]]
    ELSE [db_id |-> lastrowid(db.dbs),
          db    |-> [db EXCEPT !.dbs = db.dbs \cup
                        {[id |-> lastrowid(db.dbs),
                          database_name  |-> "examples",
                          sqlalchemy_uri |-> portable_uri(examples_path),
                          uuid |-> uuid_bytes(UUIDS.db_examples),
                          allow_file_upload |-> 1,
                          expose_in_sqllab  |-> 1,
                          allow_dml         |-> 1]}]]

\* the first dataset, whatever the key
DatasetIndex_first(key) == 1

DatasetIndex(key) == CHOOSE n \in 1..Len(DATASETS) : DATASETS[n].key = key

\* one iteration of the loop of register_datasets: the tables row, the
\* removal of stale columns with the new id, one table_columns row per column
register_dataset(db, ds, db_id, fs) ==
    LET table_id == lastrowid(db.tables)
        stale    == {c \in db.table_columns : c.table_id # table_id}
        columns  == get_columns_from_csv(fs, ds.csv)
        first    == lastrowid(stale)
    IN  [table_id |-> table_id,
         db |-> [db EXCEPT
            !.tables = db.tables \cup
                {[id |-> table_id, table_name |-> ds.table_name,
                  database_id |-> db_id, uuid |-> uuid_bytes(UUIDS[ds.key]),
                  main_dttm_col |-> ds.main_dttm_col]},
            !.table_columns = stale \cup
                {[id |-> first + i - 1, table_id |-> table_id,
                  column_name |-> columns[i].column_name,
                  type        |-> columns[i].type,
                  is_dttm     |-> IF columns[i].is_dttm THEN 1 ELSE 0,
                  groupby     |-> IF columns[i].groupby THEN 1 ELSE 0,
                  filterable  |-> IF columns[i].filterable THEN 1 ELSE 0]
                 : i \in 1..Len(columns)}]]

\* the chart definitions of create_charts; params keeps viz_type, the other
\* entries of params are literals no statement reads
charts ==
    << [key |-> "ch_total_pass",    name |-> C("Passajiropotok (mln)"),
        viz_type |-> "big_number_total",        dataset_key |-> "ds_monthly",
        params |-> [viz_type |-> "big_number_total"]],
       [key |-> "ch_monthly_bar",   name |-> C("V2ruqka po mes6cam (mlrd ") \o RUBLE \o A(")"),
        viz_type |-> "echarts_timeseries_bar",  dataset_key |-> "ds_monthly",
        params |-> [viz_type |-> "echarts_timeseries_bar"]],
       [key |-> "ch_cargo_pie",     name |-> C("Raspredelenie gruzov"),
        viz_type |-> "pie",                     dataset_key |-> "ds_cargo",
        params |-> [viz_type |-> "pie"]],
       [key |-> "ch_stations_tbl",  name |-> C("Krupne1wie stancii RJD"),
        viz_type |-> "table",                   dataset_key |-> "ds_stations",
        params |-> [viz_type |-> "table"]],
       [key |-> "ch_daily_line",    name |-> C("Passajir2 po regionam (t2s.)"),
        viz_type |-> "echarts_timeseries_line", dataset_key |-> "ds_daily",
        params |-> [viz_type |-> "echarts_timeseries_line"]],
       [key |-> "ch_incidents_bar", name |-> C("Incident2 po tipam"),
        viz_type |-> "echarts_timeseries_bar",  dataset_key |-> "ds_incidents",
        params |-> [viz_type |-> "echarts_timeseries_bar"]] >>

\* one iteration of the loop of create_charts
create_chart(db, chart_def, dataset_ids) ==
    LET ds_key    == chart_def.dataset_key
        ds_id     == dataset_ids[ds_key]
        params    == [viz_type   |-> chart_def.params.viz_type,
                      datasource |-> <<ds_id, "__table">>]
        perm_name == DATASETS[DatasetIndex(ds_key)].table_name
        chart_id  == lastrowid(db.slices)
    IN  [chart_id |-> chart_id,
         db |-> [db EXCEPT !.slices = db.slices \cup
                    {[id |-> chart_id, slice_name |-> chart_def.name,
                      viz_type |-> chart_def.viz_type,
                      datasource_type |-> "table",
                      datasource_id |-> ds_id, datasource_name |-> perm_name,
                      params |-> params,
                      uuid |-> uuid_bytes(UUIDS[chart_def.key])]}]]

\* a chart placeholder that lists itself as its child
ChartNode_nested(id, chart_id, width, sliceName, uuid) ==
    [id |-> id, type |-> "CHART", children |-> <<id>>,
     meta |-> [chartId |-> chart_id, width |-> width, height |-> 50,
               sliceName |-> sliceName, uuid |-> uuid]]

ChartNode(id, chart_id, width, sliceName, uuid) ==
    [id |-> id, type |-> "CHART", children |-> <<>>,
     meta |-> [chartId |-> chart_id, width |-> width, height |-> 50,
               sliceName |-> sliceName, uuid |-> uuid]]

RowNode(id, children) ==
    [id |-> id, type |-> "ROW", children |-> children,
     meta |-> [background |-> "BACKGROUND_TRANSPARENT"]]

\* the position dict of create_dashboard
position(chart_ids) ==
    [k \in {"DASHBOARD_VERSION_KEY", "ROOT_ID", "GRID_ID", "HEADER_ID",
            "ROW-1", "CHART-total", "CHART-bar",
            "ROW-2", "CHART-pie", "CHART-line",
            "ROW-3", "CHART-table", "CHART-inc"} |->
        CASE k = "DASHBOARD_VERSION_KEY" -> [version |-> "v2"]
          [] k = "ROOT_ID"   -> [id |-> "ROOT_ID", type |-> "ROOT",
                                 children |-> <<"GRID_ID">>]
          [] k = "GRID_ID"   -> [id |-> "GRID_ID", type |-> "GRID",
                                 children |-> <<"ROW-1", "ROW-2", "ROW-3">>,
                                 parents |-> <<"ROOT_ID">>]
          [] k = "HEADER_ID" -> [id |-> "HEADER_ID", type |-> "HEADER",
                                 meta |-> [text |-> C("RJD Analitika")]]
          [] k = "ROW-1" -> RowNode("ROW-1", <<"CHART-total", "CHART-bar">>)
          [] k = "CHART-total" ->
                ChartNode("CHART-total", chart_ids["ch_total_pass"], 4,
                          C("Passajiropotok (mln)"), UUIDS.ch_total_pass)
          [] k = "CHART-bar" ->
                ChartNode("CHART-bar", chart_ids["ch_monthly_bar"], 8,
                          C("V2ruqka po mes6cam (mlrd rub)"), UUIDS.ch_monthly_bar)
          [] k = "ROW-2" -> RowNode("ROW-2", <<"CHART-pie", "CHART-line">>)
          [] k = "CHART-pie" ->
                ChartNode("CHART-pie", chart_ids["ch_cargo_pie"], 4,
                          C("Raspredelenie gruzov"), UUIDS.ch_cargo_pie)
          [] k = "CHART-line" ->
                ChartNode("CHART-line", chart_ids["ch_daily_line"], 8,
                          C("Passajir2 po regionam (t2s.)"), UUIDS.ch_daily_line)
          [] k = "ROW-3" -> RowNode("ROW-3", <<"CHART-table", "CHART-inc">>)
          [] k = "CHART-table" ->
                ChartNode("CHART-table", chart_ids["ch_stations_tbl"], 8,
                          C("Krupne1wie stancii RJD"), UUIDS.ch_stations_tbl)
          [] k = "CHART-inc" ->
                ChartNode("CHART-inc", chart_ids["ch_incidents_bar"], 4,
                          C("Incident2 po tipam"), UUIDS.ch_incidents_bar)]

\* create_dashboard: the dashboards row, then one dashboard_slices row per
\* item of chart_ids, in the order the charts were created
create_dashboard(db, chart_ids) ==
    LET dashboard_id == lastrowid(db.dashboards)
        first        == lastrowid(db.dashboard_slices)
        keys         == [i \in 1..Len(charts) |-> charts[i].key]
    IN  [dashboard_id |-> dashboard_id,
         db |-> [db EXCEPT
            !.dashboards = db.dashboards \cup
                {[id |-> dashboard_id, dashboard_title |-> C("RJD Analitika"),
                  slug |-> "rzd_analytics",
                  position_json |-> position(chart_ids),
                  published |-> 1, uuid |-> uuid_bytes(UUIDS.dashboard)]},
            !.dashboard_slices = db.dashboard_slices \cup
                {[id |-> first + i - 1, dashboard_id |-> dashboard_id,
                  slice_id |-> chart_ids[keys[i]]]
                 : i \in {j \in 1..Len(keys) : keys[j] \in DOMAIN chart_ids}}]]

\* ------------------------------------------------------------ the state

VARIABLES
    env,          \* the installation: DEMO_DATA_DIR, its CSV files, superset.db, EXAMPLES_DB
    examples_db,  \* examples.db
    committed,    \* the rows of superset.db as of the last commit
    cur,          \* the rows of superset.db, uncommitted changes included
    pc,           \* the statement of main to execute next
    n,            \* the index of the running loop of a registrar
    db_id, dataset_ids, chart_ids, dashboard_id,    \* locals of main
    exit_status,  \* -1 while the script runs, then its exit status
    run,          \* the number of runs of the script started so far
    before,       \* superset.db when the current run started
    initial,      \* superset.db before the first run
    snap,         \* the demo rows after the first run that committed
    old_examples, \* examples.db as create_examples_db last found it
    fix_uri_ret,  \* fix_db_uri.py: the outcome of the last call of fix_uri
    reg,          \* register_rzd_datasets.py: the last run of its main
    root,         \* build_release.py: the files of ROOT_DIR
    files_to_pack, release, build_status,   \* build_release.py: main
    stations, routes                        \* generate_demo_data.py: main

vars == <<env, examples_db, committed, cur, pc, n, db_id, dataset_ids,
          chart_ids, dashboard_id, exit_status, run, before, initial, snap,
          old_examples, fix_uri_ret, reg, root, files_to_pack, release,
          build_status, stations, routes>>

\* the number of runs of the script in one behaviour
MaxRuns == 2

NoIds == [k \in {} |-> 0]

EmptyStore == [dbs |-> {}, tables |-> {}, table_columns |-> {}, slices |-> {},
               dashboards |-> {}, dashboard_slices |-> {}]

\* -------------------------------------------- rows other than the script's

UserTable(id, name) ==
    [id |-> id, table_name |-> name, database_id |-> 1,
     uuid |-> [bytes |-> name], main_dttm_col |-> "None"]

UserColumn(id, table_id, name) ==
    [id |-> id, table_id |-> table_id, column_name |-> name, type |-> "STRING",
     is_dttm |-> 0, groupby |-> 1, filterable |-> 1]

UserSlice(id, name, dtype, ds_id, ds_name) ==
    [id |-> id, slice_name |-> name, viz_type |-> "table",
     datasource_type |-> dtype, datasource_id |-> ds_id,
     datasource_name |-> ds_name,
     params |-> [viz_type |-> "table", datasource |-> <<ds_id, "__" \o dtype>>],
     uuid |-> [bytes |-> ds_name]]

UserDashboard(id, slug) ==
    [id |-> id, dashboard_title |-> A(slug), slug |-> slug,
     position_json |-> [k \in {"DASHBOARD_VERSION_KEY"} |-> [version |-> "v2"]],
     published |-> 1, uuid |-> [bytes |-> slug]]

Link(id, dash, slice) ==
    [id |-> id, dashboard_id |-> dash, slice_id |-> slice]

DbRow(id, name, uri) ==
    [id |-> id, database_name |-> name, sqlalchemy_uri |-> uri,
     uuid |-> [bytes |-> uri], allow_file_upload |-> 0,
     expose_in_sqllab |-> 1, allow_dml |-> 0]

TableChoices == { {}, {UserTable(1, "sales")},
                  {UserTable(1, "sales"), UserTable(2, "rzdata")} }
ColumnPool == {UserColumn(1, 1, "amount"), UserColumn(2, 3, "old_col")}
SlicePool  == {UserSlice(1, A("Sales"), "table", 1, "sales"),
               UserSlice(2, A("KPI board"), "table", 1, "sales"),
               UserSlice(3, A("Saved query"), "query", 3, "q")}
DashPool   == {UserDashboard(1, "sales")}
LinkChoices == { {}, {Link(1, 1, 1)}, {Link(1, 1, 1), Link(2, 1, 2)} }
DbsChoices == { {},
                {DbRow(1, "main", "sqlite:////old/superset.db")},
                {DbRow(2, "examples", "sqlite:////old/examples.db"),
                 DbRow(3, "examples", "sqlite:///C:/old/examples.db")} }

MainDbs == {DbRow(1, "main", "sqlite:////old/superset.db"),
            DbRow(2, "examples", "sqlite:////old/examples.db")}

\* stores of a working installation: with and without user rows, rows whose
\* name matches a cleanup pattern, and rows that refer to a missing row (a
\* column of a deleted dataset, a link of a deleted dashboard)
Stores ==
    { st \in { [dbs |-> MainDbs, tables |-> t, table_columns |-> c, slices |-> s,
                dashboards |-> h, dashboard_slices |-> l] :
                    t \in TableChoices, c \in {{}, ColumnPool},
                    s \in SUBSET SlicePool, h \in SUBSET DashPool,
                    l \in LinkChoices } :
        \A l \in st.dashboard_slices : \E s \in st.slices : s.id = l.slice_id }

\* stores that differ in their connection rows
DbsStores ==
    { [dbs |-> d, tables |-> t, table_columns |-> {}, slices |-> {},
       dashboards |-> {}, dashboard_slices |-> {}] :
        d \in DbsChoices, t \in TableChoices }

\* ------------------------------------------------------- installations

Line1 == <<"id", "date", "value">>
Row1  == <<"1", "2024-01-15", "2.5">>
Row2  == <<"2", "", "abc">>

\* the number of data rows of the largest demo file
MaxRows == 2

DataRows(k) == [i \in 1..k |-> IF i % 2 = 1 THEN Row1 ELSE Row2]

\* a missing file, a file whose first line is blank, files of 0..MaxRows rows
Contents ==
    {NoFile, CsvFile(<< <<>>, Row1 >>)}
    \cup { CsvFile(<<Line1>> \o DataRows(k)) : k \in 0..MaxRows }

AllFiles(file) == [f \in CsvNames |-> file]

OldExamples ==
    [exists |-> TRUE,
     tables |-> {[name |-> "legacy", schema |-> << <<"a", "TEXT">> >>,
                  rows |-> << << <<"text", "x">> >> >>],
                 [name |-> "rzd_stations", schema |-> << <<"a", "TEXT">> >>,
                  rows |-> << << <<"text", "x">> >>, << <<"text", "y">> >> >>]}]

Installation(demo, sdb, path, fs) ==
    [demo_dir |-> demo, superset_db |-> sdb, examples_path |-> path, fs |-> fs]

WinPath   == "C:\\bi\\examples.db"
PosixPath == "/opt/bi/examples.db"

FullFs == AllFiles(CsvFile(<<Line1, Row1>>))

\* rzd_stations.csv and rzd_routes.csv missing, rzd_kpi_metrics.csv with a
\* blank first line
PartialFs ==
    [f \in CsvNames |->
        IF f \in {"rzd_stations.csv", "rzd_routes.csv"} THEN NoFile
        ELSE IF f = "rzd_kpi_metrics.csv" THEN CsvFile(<< <<>>, Row1 >>)
        ELSE CsvFile(<<Line1>> \o DataRows(MaxRows))]

\* a file without lines, a file with a repeated column name
BrokenFs ==
    { [FullFs EXCEPT !["rzd_incidents.csv"] = CsvFile(<<>>)],
      [FullFs EXCEPT !["rzd_cargo_types.csv"] = CsvFile(<< <<"id", "id">> >>)] }

SmallStores ==
    { EmptyStore,
      [EmptyStore EXCEPT !.dbs = {DbRow(2, "examples", "sqlite:////old/examples.db")},
                         !.tables = {UserTable(1, "sales")}] }

TypeOK ==
    /\ pc \in {"main", "create_examples_db", "clean", "fix_conn", "register",
               "charts", "dashboard", "commit", "exit"}
    /\ exit_status \in {0 - 1, 0, 1}
    /\ run \in 1..MaxRuns
    /\ n \in 0..Len(DATASETS)

NotCalled == [called |-> FALSE]

NoRoot == [files |-> {}, dirs |-> {}, sep |-> "/"]

NoRelease == [dir |-> FALSE, zip |-> [exists |-> FALSE]]

\* generate_routes has not returned
NoRoutes == [returned |-> FALSE, list |-> <<>>]

\* no other script of the repository has run
NoOthers ==
    /\ fix_uri_ret = NotCalled
    /\ reg = NotCalled
    /\ root = NoRoot
    /\ files_to_pack = <<>>
    /\ release = NoRelease
    /\ build_status = "idle"
    /\ stations = <<>>
    /\ routes = NoRoutes

InitRun ==
    /\ cur = committed
    /\ before = committed
    /\ initial = committed
    /\ pc = "main"
    /\ n = 0
    /\ db_id = 0
    /\ dataset_ids = NoIds
    /\ chart_ids = NoIds
    /\ dashboard_id = 0
    /\ exit_status = 0 - 1
    /\ run = 1
    /\ snap = [taken |-> FALSE]
    /\ old_examples = NoDb

\* any metadata store, on an installation whose checks pass
Init ==
    /\ \/ /\ env = Installation(TRUE, TRUE, WinPath, FullFs)
          /\ examples_db = NoDb
          /\ committed \in Stores
       \/ /\ env = Installation(TRUE, TRUE, PosixPath, PartialFs)
          /\ examples_db \in {NoDb, OldExamples}
          /\ committed \in DbsStores
       \/ /\ env \in {Installation(d, s, PosixPath, FullFs) : d, s \in BOOLEAN}
                     \cup {Installation(TRUE, TRUE, PosixPath, fs) : fs \in BrokenFs}
          /\ examples_db = OldExamples
          /\ committed \in SmallStores
    /\ InitRun
    /\ NoOthers

\* the files whose content varies from one demo directory to the next
VariedFiles == {"rzd_stations.csv", "rzd_stations_full.csv", "rzd_kpi_metrics.csv"}

FsPool ==
    { [f \in CsvNames |-> IF f \in VariedFiles THEN g[f] ELSE CsvFile(<<Line1, Row1>>)] :
        g \in [VariedFiles -> Contents] }

\* any demo directory and any old examples.db, on a small metadata store
InitMat ==
    /\ \/ /\ env \in {Installation(TRUE, TRUE, PosixPath, fs) : fs \in FsPool}
          /\ examples_db \in {NoDb, OldExamples}
          /\ committed \in SmallStores
       \/ /\ env \in {Installation(TRUE, TRUE, WinPath, fs) : fs \in BrokenFs}
                     \cup {Installation(FALSE, TRUE, WinPath, FullFs)}
          /\ examples_db = OldExamples
          /\ committed = EmptyStore
    /\ InitRun
    /\ NoOthers

\* rows of a file with the columns date and v: integers, numbers with a
\* decimal point, text, empty values, and a row that ends before v
TypeRows ==
    { <<"7", "7">>, <<"7", "-2.5">>, <<"-2.5", "x1">>, <<"", "7">>, <<"x1", "">>,
      <<"", "">>, <<"+3">> }

\* the number of data rows of a file of TypeFiles
MaxTypeRows == 2

\* files of up to MaxTypeRows rows, and two files of numbers whose one row
\* of text is the last of the sample, or the first after it
TypeFiles ==
    { CsvFile(<< <<"date", "v">> >> \o rows) :
        rows \in UNION {[1..k -> TypeRows] : k \in 0..MaxTypeRows} }
    \cup { CsvFile(<< <<"date", "v">> >> \o
                   [k \in 1..(SampleRows + 1) |->
                       IF k = at THEN <<"x1", "2.5">> ELSE <<"7", "7">>]) :
            at \in {SampleRows, SampleRows + 1} }

\* any file rzd_stations.csv, on an installation without rows
InitTypes ==
    /\ env \in {Installation(TRUE, TRUE, PosixPath,
                              [FullFs EXCEPT !["rzd_stations.csv"] = file]) :
                    file \in TypeFiles}
    /\ examples_db = NoDb
    /\ committed = EmptyStore
    /\ InitRun
    /\ NoOthers

\* ---------------------------------------------------------- main, by step

Locals == <<n, db_id, dataset_ids, chart_ids, dashboard_id>>
History == <<before, initial, snap>>
\* the state of the other scripts of the repository
Others == <<fix_uri_ret, reg, root, files_to_pack, release, build_status,
            stations, routes>>
Hist == <<History, old_examples, Others>>

\* sys.exit(1), or an exception that leaves main
Exit(status) ==
    /\ pc' = "exit"
    /\ exit_status' = status

\* the checks of main without the check of SUPERSET_DB
CheckPreconditions_demo_dir_only ==
    /\ pc = "main"
    /\ IF env.demo_dir
       THEN pc' = "create_examples_db" /\ UNCHANGED exit_status
       ELSE Exit(1)
    /\ UNCHANGED <<env, examples_db, committed, cur, Locals, run, Hist>>

\* the checks of main: DEMO_DATA_DIR and SUPERSET_DB must exist
CheckPreconditions ==
    /\ pc = "main"
    /\ IF env.demo_dir /\ env.superset_db
       THEN pc' = "create_examples_db" /\ UNCHANGED exit_status
       ELSE Exit(1)
    /\ UNCHANGED <<env, examples_db, committed, cur, Locals, run, Hist>>

FirstRaising(fs) == CHOOSE k \in 1..Len(CSV_FILES) :
                        /\ FileRaises(fs, CSV_FILES[k])
                        /\ \A j \in 1..(k - 1) : ~FileRaises(fs, CSV_FILES[j])

\* examples.db when create_examples_db raised at file k: the old file is gone;
\* of the tables of the files before k, the ones created before the first
\* INSERT opened a transaction are stored, the later ones and all rows are not
InterruptedExamples(fs) ==
    { [exists |-> TRUE,
       tables |-> {[t EXCEPT !.rows = <<>>] : t \in MaterializeFrom({}, fs, j)}] :
        j \in 0..(FirstRaising(fs) - 1) }

\* phase 1, outside the try block: an exception ends the script with status 1
CreateExamplesDb ==
    /\ pc = "create_examples_db"
    /\ IF create_examples_db_raises(env.fs)
       THEN /\ examples_db' \in InterruptedExamples(env.fs)
            /\ Exit(1)
       ELSE /\ examples_db' = create_examples_db(examples_db, env.fs)
            /\ pc' = "clean"
            /\ UNCHANGED exit_status
    /\ old_examples' = examples_db
    /\ UNCHANGED <<env, committed, cur, Locals, run, History, Others>>

\* the connection registrar left out: the cleanup pass is followed by the
\* dataset registrar
CleanOldRzdData_then_register ==
    /\ pc = "clean"
    /\ cur' = clean_old_rzd_data(cur)
    /\ pc' = "register"
    /\ n' = 1
    /\ UNCHANGED <<env, examples_db, committed, db_id, dataset_ids, chart_ids,
                   dashboard_id, exit_status, run, Hist>>

CleanOldRzdData ==
    /\ pc = "clean"
    /\ cur' = clean_old_rzd_data(cur)
    /\ pc' = "fix_conn"
    /\ UNCHANGED <<env, examples_db, committed, Locals, exit_status, run, Hist>>

FixExamplesDbConnection ==
    /\ pc = "fix_conn"
    /\ \E has_row \in {ExamplesRows(cur) # {}} :
       \E row \in IF has_row THEN ExamplesRows(cur) ELSE {[id |-> 0]} :
         LET r == fix_examples_db_connection(cur, has_row, row, env.examples_path)
         IN  /\ cur' = r.db
             /\ db_id' = r.db_id
    /\ pc' = "register"
    /\ n' = 1
    /\ UNCHANGED <<env, examples_db, committed, dataset_ids, chart_ids,
                   dashboard_id, exit_status, run, Hist>>

Extend(f, k, v) == [x \in DOMAIN f \cup {k} |-> IF x = k THEN v ELSE f[x]]

RegisterDatasets ==
    /\ pc = "register"
    /\ LET ds == DATASETS[n]
           r  == register_dataset(cur, ds, db_id, env.fs)
       IN  /\ cur' = r.db
           /\ dataset_ids' = Extend(dataset_ids, ds.key, r.table_id)
    /\ IF n < Len(DATASETS)
       THEN n' = n + 1 /\ pc' = pc
       ELSE n' = 1 /\ pc' = "charts"
    /\ UNCHANGED <<env, examples_db, committed, db_id, chart_ids, dashboard_id,
                   exit_status, run, Hist>>

CreateCharts ==
    /\ pc = "charts"
    /\ LET chart_def == charts[n]
           r == create_chart(cur, chart_def, dataset_ids)
       IN  /\ cur' = r.db
           /\ chart_ids' = Extend(chart_ids, chart_def.key, r.chart_id)
    /\ IF n < Len(charts)
       THEN n' = n + 1 /\ pc' = pc
       ELSE n' = 0 /\ pc' = "dashboard"
    /\ UNCHANGED <<env, examples_db, committed, db_id, dataset_ids, dashboard_id,
                   exit_status, run, Hist>>

CreateDashboard ==
    /\ pc = "dashboard"
    /\ LET r == create_dashboard(cur, chart_ids)
       IN  /\ cur' = r.db
           /\ dashboard_id' = r.dashboard_id
    /\ pc' = "commit"
    /\ UNCHANGED <<env, examples_db, committed, n, db_id, dataset_ids, chart_ids,
                   exit_status, run, Hist>>

DatasetNames == {DATASETS[i].table_name : i \in 1..Len(DATASETS)}

Count(S) == Cardinality(S)

RzdDashboards(db) == {d \in db.dashboards : d.slug = "rzd_analytics"}

\* the demo rows of a store without their ids
DemoRows(db) ==
    [tables     |-> [d \in DatasetNames |->
                        Count({t \in db.tables : t.table_name = d})],
     slices     |-> Count({s \in db.slices : NamedRzdSlice(s)}),
     charts     |-> {<<s.slice_name, s.viz_type, s.datasource_name>> :
                        s \in {x \in db.slices : NamedRzdSlice(x)}},
     dashboards |-> Count(RzdDashboards(db)),
     links      |-> Count({l \in db.dashboard_slices :
                        l.dashboard_id \in {d.id : d \in RzdDashboards(db)}})]

\* nothing stored
commit_nothing(stored, working) == stored

\* conn.commit(): the rows written since the last commit are stored
commit(stored, working) == working

\* conn.commit(), then the script ends with status 0
Commit ==
    /\ pc = "commit"
    /\ committed' = commit(committed, cur)
    /\ snap' = IF snap.taken THEN snap ELSE [taken |-> TRUE, rows |-> DemoRows(cur)]
    /\ Exit(0)
    /\ UNCHANGED <<env, examples_db, cur, Locals, run, before, initial,
                   old_examples, Others>>

\* no rollback: the rows written so far stay
rollback_keeps(stored, working) == working

\* conn.rollback(): the rows return to what the last commit stored
rollback(stored, working) == stored

InTry == pc \in {"clean", "fix_conn", "register", "charts", "dashboard", "commit"}

\* a statement inside the try block raises: except rolls back, sys.exit(1)
Raise ==
    /\ InTry
    /\ cur' = rollback(committed, cur)
    /\ Exit(1)
    /\ UNCHANGED <<env, examples_db, committed, Locals, run, Hist>>

\* the script is started again
Rerun ==
    /\ pc = "exit"
    /\ run < MaxRuns
    /\ run' = run + 1
    /\ pc' = "main"
    /\ exit_status' = 0 - 1
    /\ cur' = committed
    /\ before' = committed
    /\ n' = 0
    /\ db_id' = 0
    /\ dataset_ids' = NoIds
    /\ chart_ids' = NoIds
    /\ dashboard_id' = 0
    /\ UNCHANGED <<env, examples_db, committed, initial, snap, old_examples,
                   Others>>

Next ==
    \/ CheckPreconditions
    \/ CreateExamplesDb
    \/ CleanOldRzdData
    \/ FixExamplesDbConnection
    \/ RegisterDatasets
    \/ CreateCharts
    \/ CreateDashboard
    \/ Commit
    \/ Raise
    \/ Rerun

Spec == Init /\ [][Next]_vars

SpecMat == InitMat /\ [][Next]_vars

SpecTypes == InitTypes /\ [][Next]_vars

\* ------------------------------------------------------ build_release.py

RELEASE_NAME == "superset-portable-v6.2-rzd"

INCLUDE_DIRS == <<"python", "superset_home", "docs">>

INCLUDE_FILES == <<"start_superset.bat", "examples.db", "README.md",
                   "QUICKSTART.md", "LICENSE", "NOTICE">>

\* each name by its components; the name is the components joined by "/"
INCLUDE_EXTRA ==
    << <<"setup", "create_rzd_dashboard.py">>, <<"setup", "fix_db_uri.py">>,
       <<"setup", "generate_demo_data.py">>, <<"setup", "install_superset.bat">>,
       <<"setup", "download_python.ps1">>,
       <<"target", "release", "create_dashboard.exe">>,
       <<"target", "release", "superset-launcher.exe">>,
       <<"docs", "HOWTO_UPDATE_DATA.md">> >>

EXCLUDE_PATTERNS ==
    << "__pycache__", ".pyc", ".pyo", "*.egg-info", ".git", ".DS_Store",
       "Thumbs.db", "superset_home/uploads", "superset_home/__pycache__",
       "python/Scripts", "python/Lib/test", "python/Lib/unittest",
       "python/Lib/site-packages/pip", "python/Lib/site-packages/setuptools",
       "python/share", "python/doc", "python/tcl", "python/tools",
       "*.pdb", "*.dist-info" >>

\* sub in s
Contains(s, sub) ==
    \E i \in 1..(Len(s) - Len(sub) + 1) : SubSeq(s, i, i + Len(sub) - 1) = sub

should_exclude(rel_path_str) ==
    \E k \in 1..Len(EXCLUDE_PATTERNS) : Contains(rel_path_str, EXCLUDE_PATTERNS[k])

\* str() of a path: its components joined by the separator
RECURSIVE Join(_, _)
Join(path, sep) ==
    IF Len(path) = 1 THEN path[1] ELSE path[1] \o sep \o Join(Tail(path), sep)

\* (ROOT_DIR / path).exists(): a file, a directory, or a directory above one
Exists(fs, path) ==
    \E f \in fs.files \cup fs.dirs :
        Len(f) >= Len(path) /\ SubSeq(f, 1, Len(path)) = path

\* the files os.walk reaches below ROOT_DIR / dir_name when the directories
\* whose name should_exclude rejects are pruned, less the files whose
\* relative path it rejects
Walked(fs, dir_name) ==
    {f \in fs.files :
        /\ Len(f) >= 2
        /\ f[1] = dir_name
        /\ \A k \in 2..(Len(f) - 1) : ~should_exclude(f[k])
        /\ ~should_exclude(Join(f, fs.sep))}

\* the files of a walk in the order they are listed (the order of a directory
\* listing is the file system's; the model fixes one)
RECURSIVE Listed(_)
Listed(S) ==
    IF S = {} THEN <<>>
    ELSE LET x == CHOOSE y \in S : TRUE IN <<x>> \o Listed(S \ {x})

PackEntry(source, archive_path) == [source |-> source, archive_path |-> archive_path]

\* the archive path keeps the directories of the name
ExtraArchivePath_kept(name) == RELEASE_NAME \o "/" \o Join(name, "/")

\* the archive path of a file of INCLUDE_EXTRA: flattened to the file name
\* for the binaries of target/release
ExtraArchivePath(name) ==
    IF Contains(Join(name, "/"), "target/release")
    THEN RELEASE_NAME \o "/" \o name[Len(name)]
    ELSE RELEASE_NAME \o "/" \o Join(name, "/")

\* the three loops of main that fill files_to_pack
CollectFiles(fs) ==
    LET walk(d)  == LET fl == Listed(Walked(fs, d))
                    IN  [i \in 1..Len(fl) |->
                            PackEntry(fl[i], RELEASE_NAME \o "/" \o Join(fl[i], fs.sep))]
        dirs     == walk(INCLUDE_DIRS[1]) \o walk(INCLUDE_DIRS[2]) \o walk(INCLUDE_DIRS[3])
        files    == [i \in 1..Len(INCLUDE_FILES) |->
                        PackEntry(<<INCLUDE_FILES[i]>>,
                                  RELEASE_NAME \o "/" \o INCLUDE_FILES[i])]
        extra    == [i \in 1..Len(INCLUDE_EXTRA) |->
                        PackEntry(INCLUDE_EXTRA[i], ExtraArchivePath(INCLUDE_EXTRA[i]))]
        there(e) == Exists(fs, e.source)
    IN  dirs \o SelectSeq(files, there) \o SelectSeq(extra, there)

\* the checks of main without the loop over INCLUDE_FILES
BuildCheck_dirs_only ==
    /\ build_status = "main"
    /\ LET errors == {<<INCLUDE_DIRS[i]>> : i \in 1..Len(INCLUDE_DIRS)}
       IN  build_status' = IF \A p \in errors : Exists(root, p)
                           THEN "collect" ELSE "exit 1"
    /\ UNCHANGED <<env, examples_db, committed, cur, pc, Locals, exit_status, run,
                   History, old_examples, fix_uri_ret, reg, root, files_to_pack,
                   release, stations, routes>>

\* the checks of main: every directory of INCLUDE_DIRS and every file of
\* INCLUDE_FILES must exist, else sys.exit(1)
BuildCheck ==
    /\ build_status = "main"
    /\ LET errors == {<<INCLUDE_DIRS[i]>> : i \in 1..Len(INCLUDE_DIRS)}
                      \cup {<<INCLUDE_FILES[i]>> : i \in 1..Len(INCLUDE_FILES)}
       IN  build_status' = IF \A p \in errors : Exists(root, p)
                           THEN "collect" ELSE "exit 1"
    /\ UNCHANGED <<env, examples_db, committed, cur, pc, Locals, exit_status, run,
                   History, old_examples, fix_uri_ret, reg, root, files_to_pack,
                   release, stations, routes>>

BuildCollect ==
    /\ build_status = "collect"
    /\ files_to_pack' = CollectFiles(root)
    /\ build_status' = "pack"
    /\ UNCHANGED <<env, examples_db, committed, cur, pc, Locals, exit_status, run,
                   History, old_examples, fix_uri_ret, reg, root, release,
                   stations, routes>>

\* RELEASE_DIR.mkdir, the old archive unlinked, the new one written
BuildPack ==
    /\ build_status = "pack"
    /\ release' = [dir |-> TRUE,
                   zip |-> [exists |-> TRUE,
                            names  |-> [i \in 1..Len(files_to_pack) |->
                                           files_to_pack[i].archive_path]]]
    /\ build_status' = "exit 0"
    /\ UNCHANGED <<env, examples_db, committed, cur, pc, Locals, exit_status, run,
                   History, old_examples, fix_uri_ret, reg, root, files_to_pack,
                   stations, routes>>

\* the files a release is built from
BaseFiles ==
    { <<"python", "python.exe">>, <<"superset_home", "superset.db">>,
      <<"docs", "README.md">> }
    \cup {<<INCLUDE_FILES[i]>> : i \in 1..Len(INCLUDE_FILES)}

\* files a project root may hold besides: inside and outside the included
\* directories, matching and not matching an exclusion pattern
MoreFiles ==
    << { <<"python", "Scripts", "pip.exe">>, <<"python", "Lib", "__pycache__", "a.pyc">>,
         <<"superset_home", "uploads", "u.csv">> },
       { <<"docs", "HOWTO_UPDATE_DATA.md">> },
       { <<"docs", "src", "a.md">>, <<"docs", "tests", "t.md">> },
       { <<"setup", "create_rzd_dashboard.py">>, <<"setup", "helper.py">> },
       { <<"target", "release", "create_dashboard.exe">>, <<"target", "debug", "x.exe">> },
       { <<"src", "main.rs">>, <<"tests", "test_a.py">> },
       { <<"python", "Lib", "x.dist-info", "METADATA">>, <<"python", "a.pdb">> } >>

\* project roots on POSIX and on Windows, complete or with a required file
\* or directory missing
Roots ==
    { [files |-> (BaseFiles \cup UNION {MoreFiles[i] : i \in I}) \ gone,
       dirs  |-> {<<"docs", "img">>}, sep |-> sp] :
        I \in SUBSET (1..Len(MoreFiles)),
        gone \in { {}, {<<"examples.db">>}, {<<"superset_home", "superset.db">>} },
        sp \in {"/", "\\"} }

OldRelease == [dir |-> TRUE, zip |-> [exists |-> TRUE, names |-> <<"old">>]]

\* the seeding script at rest on an installation without rows
IdleMain ==
    /\ env = Installation(TRUE, TRUE, PosixPath, FullFs)
    /\ examples_db = NoDb
    /\ committed = EmptyStore
    /\ InitRun

\* any project root, on POSIX and on Windows, with and without an old archive
InitBuild ==
    /\ IdleMain
    /\ root \in Roots
    /\ release \in {NoRelease, OldRelease}
    /\ build_status = "main"
    /\ files_to_pack = <<>>
    /\ fix_uri_ret = NotCalled
    /\ reg = NotCalled
    /\ stations = <<>>
    /\ routes = NoRoutes

NextBuild ==
    \/ BuildCheck
    \/ BuildCollect
    \/ BuildPack

SpecBuild == InitBuild /\ [][NextBuild]_vars

\* --------------------------------------------------------- fix_db_uri.py

\* the UPDATE also when the URI is already the new one
fix_uri_always_updates(db, exists, has_row, row, examples_path) ==
    LET new_uri == portable_uri(examples_path) IN
    IF ~exists THEN [success |-> FALSE, updated |-> FALSE, db |-> db]
    ELSE IF ~has_row THEN [success |-> TRUE, updated |-> FALSE, db |-> db]
    ELSE [success |-> TRUE, updated |-> TRUE,
          db |-> [db EXCEPT !.dbs =
                    {IF r.id = row.id THEN [r EXCEPT !.sqlalchemy_uri = new_uri]
                     ELSE r : r \in db.dbs}]]

\* fix_uri when no statement raises; exists is SUPERSET_DB.exists(), row is
\* what fetchone returned (a row named 'examples'), or no row at all
fix_uri(db, exists, has_row, row, examples_path) ==
    LET new_uri == portable_uri(examples_path) IN
    IF ~exists THEN [success |-> FALSE, updated |-> FALSE, db |-> db]
    ELSE IF ~has_row THEN [success |-> TRUE, updated |-> FALSE, db |-> db]
    ELSE IF row.sqlalchemy_uri = new_uri
         THEN [success |-> TRUE, updated |-> FALSE, db |-> db]
    ELSE [success |-> TRUE, updated |-> TRUE,
          db |-> [db EXCEPT !.dbs =
                    {IF r.id = row.id THEN [r EXCEPT !.sqlalchemy_uri = new_uri]
                     ELSE r : r \in db.dbs}]]

\* the number of calls of fix_uri in one behaviour
MaxCalls == 3

Calls == IF fix_uri_ret.called THEN fix_uri_ret.calls ELSE 0

\* the script is run: fix_uri returns, its UPDATE committed
FixUri ==
    /\ pc = "main"
    /\ Calls < MaxCalls
    /\ \E has_row \in {ExamplesRows(committed) # {}} :
       \E row \in IF has_row THEN ExamplesRows(committed) ELSE {[id |-> 0]} :
         LET r == fix_uri(committed, env.superset_db, has_row, row, env.examples_path)
         IN  /\ committed' = r.db
             /\ cur' = r.db
             /\ fix_uri_ret' = [called |-> TRUE, calls |-> Calls + 1,
                                success |-> r.success, updated |-> r.updated,
                                new_uri |-> portable_uri(env.examples_path)]
    /\ UNCHANGED <<env, examples_db, pc, Locals, exit_status, run, History,
                   old_examples, reg, root, files_to_pack, release, build_status,
                   stations, routes>>

\* a statement of the try block raises (the database is locked, there is no
\* table dbs): except rolls back and fix_uri returns False
FixUriRaises ==
    /\ pc = "main"
    /\ Calls < MaxCalls
    /\ env.superset_db
    /\ fix_uri_ret' = [called |-> TRUE, calls |-> Calls + 1,
                       success |-> FALSE, updated |-> FALSE,
                       new_uri |-> portable_uri(env.examples_path)]
    /\ UNCHANGED <<env, examples_db, committed, cur, pc, Locals, exit_status, run,
                   History, old_examples, reg, root, files_to_pack, release,
                   build_status, stations, routes>>

OtherPath == "D:\\portable\\examples.db"

\* the release is extracted somewhere else: ROOT_DIR changes
Relocate ==
    /\ pc = "main"
    /\ \E path \in {WinPath, PosixPath, OtherPath} \ {env.examples_path} :
          env' = [env EXCEPT !.examples_path = path]
    /\ UNCHANGED <<examples_db, committed, cur, pc, Locals, exit_status, run,
                   History, old_examples, Others>>

\* stores with no connection named 'examples' and with one, its URI that of
\* another place or already that of this one
UriStores ==
    { [EmptyStore EXCEPT !.dbs = d, !.tables = t] :
        d \in { {}, {DbRow(1, "main", "sqlite:////old/superset.db")}, MainDbs,
                {DbRow(1, "examples", "sqlite:////opt/bi/examples.db"),
                 DbRow(2, "sales_dw", "sqlite:////old/examples.db")} },
        t \in TableChoices }

InitUri ==
    /\ env \in {Installation(TRUE, s, path, FullFs) :
                    s \in BOOLEAN, path \in {WinPath, PosixPath}}
    /\ examples_db = NoDb
    /\ committed \in UriStores
    /\ InitRun
    /\ NoOthers

NextUri ==
    \/ FixUri
    \/ FixUriRaises
    \/ Relocate

SpecUri == InitUri /\ [][NextUri]_vars

\* -------------------------------------------------- register_rzd_datasets.py

\* get_main_db_id; row is what fetchone returned (a row named 'examples' or
\* 'main'), or no row at all; the uuid is the text of the time of the call
get_main_db_id(db, has_row, row) ==
    IF has_row THEN [db_id |-> row.id, db |-> db]
    ELSE [db_id |-> lastrowid(db.dbs),
          db    |-> [db EXCEPT !.dbs = db.dbs \cup
                        {[id |-> lastrowid(db.dbs),
                          database_name  |-> "examples",
                          sqlalchemy_uri |-> "sqlite:///superset_home/superset.db",
                          uuid |-> [text |-> "timestamp"],
                          allow_file_upload |-> 0,
                          expose_in_sqllab  |-> 1,
                          allow_dml         |-> 0]}]]

\* the INSERT without the SELECT before it
create_dataset_unchecked(db, id, table_name) ==
    [db EXCEPT !.tables = db.tables \cup
        {[id |-> lastrowid(db.tables), table_name |-> table_name,
          database_id |-> id, uuid |-> [text |-> "timestamp"],
          main_dttm_col |-> "None"]}]

create_dataset(db, id, table_name) ==
    IF \E t \in db.tables : t.table_name = table_name THEN db
    ELSE [db EXCEPT !.tables = db.tables \cup
            {[id |-> lastrowid(db.tables), table_name |-> table_name,
              database_id |-> id, uuid |-> [text |-> "timestamp"],
              main_dttm_col |-> "None"]}]

\* the number of runs of register_rzd_datasets.py in one behaviour
MaxRegRuns == 2

RegRuns == IF reg.called THEN reg.runs ELSE 0

\* main of register_rzd_datasets.py, run while the seeding script is not
\* running: the connection, the three datasets, commit
RegisterRzdDatasets ==
    /\ pc \in {"main", "exit"}
    /\ RegRuns < MaxRegRuns
    /\ LET rows == {r \in committed.dbs : r.database_name \in {"examples", "main"}} IN
       \E has_row \in {rows # {}} :
       \E row \in IF has_row THEN rows ELSE {[id |-> 0]} :
         LET m  == get_main_db_id(committed, has_row, row)
             d1 == create_dataset(m.db, m.db_id, "rzd_stations")
             d2 == create_dataset(d1, m.db_id, "rzd_monthly_stats")
             d3 == create_dataset(d2, m.db_id, "rzd_cargo_types")
         IN  /\ committed' = d3
             /\ cur' = d3
             /\ reg' = [called |-> TRUE, runs |-> RegRuns + 1, status |-> 0,
                        created |-> {t.table_name : t \in d3.tables \ committed.tables}]
    /\ UNCHANGED <<env, examples_db, pc, Locals, exit_status, run, History,
                   old_examples, fix_uri_ret, root, files_to_pack, release,
                   build_status, stations, routes>>

\* a statement of the try block raises: there is no except, finally closes
\* the connection and nothing is committed
RegisterRzdDatasetsRaises ==
    /\ pc \in {"main", "exit"}
    /\ RegRuns < MaxRegRuns
    /\ reg' = [called |-> TRUE, runs |-> RegRuns + 1, status |-> 1, created |-> {}]
    /\ UNCHANGED <<env, examples_db, committed, cur, pc, Locals, exit_status, run,
                   History, old_examples, fix_uri_ret, root, files_to_pack, release,
                   build_status, stations, routes>>

\* stores with and without a connection, with none or one of the three
\* datasets registered by hand
RegStores ==
    { [EmptyStore EXCEPT !.dbs = d, !.tables = t] :
        d \in { {}, {DbRow(1, "main", "sqlite:////old/superset.db")}, MainDbs },
        t \in { {}, {UserTable(1, "sales")}, {UserTable(4, "rzd_stations")},
                {UserTable(1, "sales"), UserTable(2, "rzd_monthly_stats")} } }

InitReg ==
    /\ env = Installation(TRUE, TRUE, PosixPath, FullFs)
    /\ examples_db = NoDb
    /\ committed \in RegStores
    /\ InitRun
    /\ NoOthers

NextReg ==
    \/ Next
    \/ RegisterRzdDatasets
    \/ RegisterRzdDatasetsRaises

SpecReg == InitReg /\ [][NextReg]_vars

\* -------------------------------------------------- generate_demo_data.py

\* generate_stations for a list of cities (name, latitude, longitude); the
\* two random draws per city are extras[k], the classes of the stations the
\* city has besides its main one (2 cargo, 3 sorting); the columns that
\* generate_routes does not read are left out, and so are the random offsets
\* of the coordinates of the cargo and sorting stations
RECURSIVE generate_stations(_, _, _)
generate_stations(cities, extras, k) ==
    IF k = 0 THEN <<>>
    ELSE LET prev == generate_stations(cities, extras, k - 1)
             c    == cities[k]
             st(idx, suffix, class) ==
                 [id |-> idx, name |-> c.city \o A("-") \o suffix, city |-> c.city,
                  latitude |-> c.lat, longitude |-> c.lon, station_class |-> class]
             main == <<st(Len(prev) + 1, C("Glavn21"), 1)>>
             cargo == IF 2 \in extras[k]
                      THEN <<st(Len(prev) + 2, C("Tovarna6"), 2)>> ELSE <<>>
             sort == IF 3 \in extras[k]
                     THEN <<st(Len(prev) + Len(cargo) + 2, C("Sortirovoqna6"), 3)>>
                     ELSE <<>>
         IN  prev \o main \o cargo \o sort

\* calculate_distance for two points of one meridian, where the haversine
\* formula gives R * |lat2 - lat1| * pi / 180; in km, rounded down
calculate_distance(lat1, lon1, lat2, lon2) ==
    LET dlat == IF lat2 >= lat1 THEN lat2 - lat1 ELSE lat1 - lat2
    IN  (6371 * 3142 * dlat) \div 180000

\* the length of the slice distances[:4]
NearestCount == 4

\* both directions added
Ascending_any(origin_id, dest_id) == TRUE

\* if origin["id"] < dest["id"]
Ascending(origin_id, dest_id) == origin_id < dest_id

\* the body of the loop over main_stations for the origin at position o:
\* the other main stations sorted by distance (the sort is stable), the first
\* four of them, a route to each with a larger id; route ids go on from
\* route_id
RoutesFrom(main_stations, o, route_id) ==
    LET origin  == main_stations[o]
        others  == {j \in 1..Len(main_stations) : main_stations[j].id # origin.id}
        dist(j) == calculate_distance(origin.latitude, origin.longitude,
                                      main_stations[j].latitude,
                                      main_stations[j].longitude)
        pos(j)  == 1 + Cardinality({i \in others :
                        \/ dist(i) < dist(j)
                        \/ dist(i) = dist(j) /\ i < j})
        count   == IF Cardinality(others) < NearestCount
                   THEN Cardinality(others) ELSE NearestCount
        nearest == [q \in 1..count |-> CHOOSE j \in others : pos(j) = q]
        added(j) == Ascending(origin.id, main_stations[j].id)
        dests   == SelectSeq(nearest, added)
    IN  [i \in 1..Len(dests) |->
            [id |-> route_id + i - 1,
             origin_id |-> origin.id, origin_name |-> origin.name,
             dest_id |-> main_stations[dests[i]].id,
             dest_name |-> main_stations[dests[i]].name,
             distance_km |-> dist(dests[i]),
             geometry |-> << <<origin.longitude, origin.latitude>>,
                             <<main_stations[dests[i]].longitude,
                               main_stations[dests[i]].latitude>> >>]]

RECURSIVE RoutesUpTo(_, _)
RoutesUpTo(main_stations, o) ==
    IF o = 0 THEN <<>>
    ELSE LET prev == RoutesUpTo(main_stations, o - 1)
         IN  prev \o RoutesFrom(main_stations, o, Len(prev) + 1)

\* trains_per_day, a random number no statement reads, is left out
generate_routes(all_stations) ==
    LET is_main(x)    == Contains(x.name, C("Glavn21"))
        main_stations == SelectSeq(all_stations, is_main)
    IN  RoutesUpTo(main_stations, Len(main_stations))

\* the first cities of CITIES
CityNames == << C("Moskva"), C("Sankt-Peterburg"), C("Voronej"), C("6roslavl5"),
                C("R6zan5"), C("Tula"), C("Lipeck"), C("Br6nsk") >>

\* the number of cities of the largest list of stations
MaxCities == 6

\* latitudes, in degrees, of cities of one meridian: a cluster and a city far
\* from it
LatPool == {50, 51, 52, 53, 54, 56, 70}

\* main: stations = generate_stations(), for any placing of the cities and
\* two outcomes of the random draws
GenerateStations ==
    /\ stations = <<>>
    /\ \E k \in {3, MaxCities} :
       \E lats \in {f \in [1..k -> LatPool] : \A i, j \in 1..k : i # j => f[i] # f[j]} :
       \E extras \in {[i \in 1..k |-> {}],
                       [i \in 1..k |-> IF i = 1 THEN {2, 3}
                                        ELSE IF i % 2 = 0 THEN {2} ELSE {}]} :
          stations' = generate_stations(
                          [i \in 1..k |-> [city |-> CityNames[i], lat |-> lats[i],
                                            lon |-> 37]],
                          extras, k)
    /\ UNCHANGED <<env, examples_db, committed, cur, pc, Locals, exit_status, run,
                   History, old_examples, fix_uri_ret, reg, root, files_to_pack,
                   release, build_status, routes>>

\* main: routes = generate_routes(stations)
GenerateRoutes ==
    /\ stations # <<>>
    /\ ~routes.returned
    /\ routes' = [returned |-> TRUE, list |-> generate_routes(stations)]
    /\ UNCHANGED <<env, examples_db, committed, cur, pc, Locals, exit_status, run,
                   History, old_examples, fix_uri_ret, reg, root, files_to_pack,
                   release, build_status, stations>>

InitRoutes ==
    /\ IdleMain
    /\ NoOthers

NextRoutes ==
    \/ GenerateStations
    \/ GenerateRoutes

SpecRoutes == InitRoutes /\ [][NextRoutes]_vars

\* ------------------------------------------------------------- properties

Succeeded == pc = "exit" /\ exit_status = 0

Failed == pc = "exit" /\ exit_status = 1

\* C1: after every run that commits, the store holds exactly one tables row
\* per DATASETS entry, six demo charts, one dashboard 'rzd_analytics' and six
\* links to it, and its demo rows are those of the first run that committed
C1_RerunIdempotent ==
    Succeeded =>
        LET rows == DemoRows(cur)
        IN  /\ rows.tables = [d \in DatasetNames |-> 1]
            /\ rows.slices = 6
            /\ rows.dashboards = 1
            /\ rows.links = 6
            /\ rows = snap.rows

\* the rows of a store, table by table, as <<table, row>>
AllRows(db) ==
    {<<"tables", r>> : r \in db.tables}
    \cup {<<"table_columns", r>> : r \in db.table_columns}
    \cup {<<"slices", r>> : r \in db.slices}
    \cup {<<"dashboards", r>> : r \in db.dashboards}
    \cup {<<"dashboard_slices", r>> : r \in db.dashboard_slices}

AfterCleanup == pc = "fix_conn"

\* C2 as claimed: the cleanup pass leaves every row that no run of the
\* script inserted (the rows of the store before the first run) in place
C2_DeletesOnlySeededRows ==
    AfterCleanup => (AllRows(initial) \cap AllRows(before)) \subseteq AllRows(cur)

LikeRzd(name) == Like(A(name), A("rzd_%"))

\* the rows the statements of the cleanup pass select, by pattern and by id
CleanupSelects(db, x) ==
    LET rzd_tables  == {t.id : t \in {y \in db.tables : LikeRzd(y.table_name)}}
        rzd_slices  == {z.id : z \in {y \in db.slices :
                            \/ y.datasource_id \in rzd_tables
                            \/ LikeRzd(y.datasource_name)
                            \/ \E p \in SliceNamePatterns : Like(y.slice_name, p)}}
        rzd_dashes  == {d.id : d \in {y \in db.dashboards : y.slug = "rzd_analytics"}}
        kept_tables == {t.id : t \in {y \in db.tables : ~LikeRzd(y.table_name)}}
    IN  CASE x[1] = "tables"           -> x[2].id \in rzd_tables
          [] x[1] = "slices"           -> x[2].id \in rzd_slices
          [] x[1] = "dashboards"       -> x[2].id \in rzd_dashes
          [] x[1] = "dashboard_slices" -> \/ x[2].dashboard_id \in rzd_dashes
                                          \/ x[2].slice_id \in rzd_slices
          [] x[1] = "table_columns"    -> x[2].table_id \notin kept_tables

\* C2, amended: the cleanup pass deletes by pattern and by id; every row that
\* its statements do not select is left in place and unchanged, and no row
\* is added
C2_DeletesOnlySelectedRows ==
    AfterCleanup =>
        /\ {x \in AllRows(before) : ~CleanupSelects(before, x)} \subseteq AllRows(cur)
        /\ AllRows(cur) \subseteq AllRows(before)
        /\ cur.dbs = before.dbs

\* the cleanup pass kept a user chart and deleted another row
C2_Witness ==
    /\ AfterCleanup
    /\ \E s \in cur.slices : s.slice_name = A("Sales")
    /\ \E t \in cur.tables : t.table_name = "sales"
    /\ \E c \in cur.table_columns : c.column_name = "amount"
    /\ AllRows(cur) # AllRows(before)

\* C3: a run that ends with status 1 leaves the metadata store as it was
\* when the run started, and only a run whose phases all finished and whose
\* rows are committed ends with status 0
C3_FailureRestoresStore ==
    /\ Failed => (cur = before /\ committed = before)
    /\ Succeeded => /\ cur = committed
                    /\ Cardinality(DOMAIN dataset_ids) = Len(DATASETS)
                    /\ Cardinality(DOMAIN chart_ids) = Len(charts)
                    /\ \E d \in cur.dashboards : d.id = dashboard_id

\* a second run failed after its registrars had inserted rows, and the rows
\* of the first run are in the store
C3_Witness ==
    /\ Failed
    /\ run = 2
    /\ DOMAIN chart_ids # {}
    /\ snap.taken
    /\ DemoRows(cur) = snap.rows
    /\ RzdDashboards(cur) # {}

MetaRows(db, name) == {m \in db.tables : m.table_name = name}

\* C4 as claimed: after a successful run every backing table of examples.db
\* has exactly one row in tables
C4_OneRowPerBackingTable ==
    Succeeded =>
        \A t \in examples_db.tables : Cardinality(MetaRows(cur, t.name)) = 1

RegisteredNames ==
    {"rzd_stations", "rzd_monthly_stats", "rzd_cargo_types",
     "rzd_daily_operations", "rzd_incidents", "rzd_kpi_metrics"}

\* C4, amended: after a successful run every backing table named by a
\* DATASETS entry has exactly one row in tables, and the backing tables
\* rzd_stations_full and rzd_routes, which no entry names, have none
C4_OneRowPerDataset ==
    Succeeded =>
        \A t \in examples_db.tables :
            Cardinality(MetaRows(cur, t.name)) =
                IF t.name \in RegisteredNames THEN 1 ELSE 0

\* a second successful run, with backing tables inside and outside DATASETS
C4_Witness ==
    /\ Succeeded
    /\ run = 2
    /\ \E t \in examples_db.tables : t.name = "rzd_routes"
    /\ \E t \in examples_db.tables : t.name = "rzd_monthly_stats"

Registered == pc \in {"charts", "dashboard", "commit"} \/ Succeeded

\* C5: after register_datasets the table_columns rows with a dataset's new id
\* are one row per header of the dataset's CSV file, and none besides
C5_OneRowPerColumn ==
    Registered =>
        \A i \in 1..Len(DATASETS) :
            LET cols == {c \in cur.table_columns :
                            c.table_id = dataset_ids[DATASETS[i].key]}
                file == env.fs[DATASETS[i].csv]
                hdrs == IF file.exists THEN file.lines[1] ELSE <<>>
            IN  /\ Cardinality(cols) = Len(hdrs)
                /\ \A h \in 1..Len(hdrs) :
                      Cardinality({c \in cols : c.column_name = hdrs[h]}) = 1

\* the datasets are registered, one with three columns and one without, and
\* the store held a column row with the id a dataset received
C5_Witness ==
    /\ pc = "charts"
    /\ \E c \in before.table_columns : c.table_id = dataset_ids["ds_monthly"]
    /\ Cardinality({c \in cur.table_columns :
                        c.table_id = dataset_ids["ds_monthly"]}) = 3

ChartsCreated == pc \in {"dashboard", "commit"} \/ Succeeded

DatasetOf(chart_key) ==
    CASE chart_key = "ch_total_pass"    -> "rzd_monthly_stats"
      [] chart_key = "ch_monthly_bar"   -> "rzd_monthly_stats"
      [] chart_key = "ch_cargo_pie"     -> "rzd_cargo_types"
      [] chart_key = "ch_stations_tbl"  -> "rzd_stations"
      [] chart_key = "ch_daily_line"    -> "rzd_daily_operations"
      [] chart_key = "ch_incidents_bar" -> "rzd_incidents"

\* C6: after create_charts every chart definition has exactly one slices
\* row, the six rows are distinct, and each refers to the tables row that
\* this run inserted for its dataset, by id, by name and in its params
C6_ChartsReferToDatasets ==
    ChartsCreated =>
        /\ Cardinality({chart_ids[k] : k \in DOMAIN chart_ids}) = Len(charts)
        /\ Cardinality(cur.slices) =
              Cardinality(clean_old_rzd_data(before).slices) + Len(charts)
        /\ \A i \in 1..Len(charts) :
              LET rows == {s \in cur.slices :
                              s.uuid = uuid_bytes(UUIDS[charts[i].key])}
              IN  /\ Cardinality(rows) = 1
                  /\ \A s \in rows :
                      /\ s.id = chart_ids[charts[i].key]
                      /\ s.datasource_type = "table"
                      /\ s.datasource_name = DatasetOf(charts[i].key)
                      /\ \E k \in DOMAIN dataset_ids : dataset_ids[k] = s.datasource_id
                      /\ \E t \in cur.tables :
                            /\ t.id = s.datasource_id
                            /\ t.table_name = s.datasource_name
                      /\ s.params.datasource = <<s.datasource_id, "__table">>
                      /\ s.params.viz_type = s.viz_type

\* the six charts are created next to a user chart
C6_Witness ==
    /\ pc = "dashboard"
    /\ Cardinality(DOMAIN chart_ids) = 6
    /\ \E s \in cur.slices : s.slice_name = A("Sales")

DashboardCreated == pc = "commit" \/ Succeeded

ChartKeys(pos) == {k \in DOMAIN pos \ {"DASHBOARD_VERSION_KEY"} : pos[k].type = "CHART"}

\* C7: after create_dashboard the new dashboard has exactly one
\* dashboard_slices row per chart of the run, and the charts its position
\* names are the slices linked to it
C7_LinksMatchPosition ==
    DashboardCreated =>
        LET links == {l \in cur.dashboard_slices : l.dashboard_id = dashboard_id}
        IN  /\ \A k \in DOMAIN chart_ids :
                  Cardinality({l \in links : l.slice_id = chart_ids[k]}) = 1
            /\ \A d \in {x \in cur.dashboards : x.id = dashboard_id} :
                  {d.position_json[k].meta.chartId : k \in ChartKeys(d.position_json)}
                      = {l.slice_id : l \in links}

Keys(pos) == DOMAIN pos \ {"DASHBOARD_VERSION_KEY"}

Kids(pos, k) ==
    IF "children" \in DOMAIN pos[k]
    THEN {pos[k].children[i] : i \in 1..Len(pos[k].children)}
    ELSE {}

\* the parents of k, one per occurrence of k in a list of children
Parents(pos, k) ==
    {<<p, i>> \in Keys(pos) \X (1..Cardinality(Keys(pos))) :
        /\ "children" \in DOMAIN pos[p]
        /\ i <= Len(pos[p].children)
        /\ pos[p].children[i] = k}

RECURSIVE Below(_, _, _)
Below(pos, S, depth) ==
    IF depth = 0 THEN S
    ELSE Below(pos, S \cup UNION {Kids(pos, x) : x \in S \cap Keys(pos)}, depth - 1)

WellFormed(pos) ==
    /\ \A k \in Keys(pos) : \A c \in Kids(pos, k) : c \in Keys(pos) /\ pos[c].id = c
    /\ pos["ROOT_ID"].type = "ROOT"
    /\ pos["ROOT_ID"].children = <<"GRID_ID">>
    /\ pos["GRID_ID"].type = "GRID"
    /\ \A c \in Kids(pos, "GRID_ID") : pos[c].type = "ROW"
    /\ \A k \in Keys(pos) :
          pos[k].type = "ROW" => \A c \in Kids(pos, k) : pos[c].type = "CHART"
    /\ \A k \in Keys(pos) :
          pos[k].type = "CHART" =>
              /\ Kids(pos, k) = {}
              /\ Cardinality(Parents(pos, k)) = 1
              /\ \A q \in Parents(pos, k) : pos[q[1]].type = "ROW"
    /\ \A k \in Keys(pos) :
          k \notin Below(pos, Kids(pos, k), Cardinality(Keys(pos)))

\* C8: the position of the dashboard the script stores is a tree: children
\* are keys of the map, ROOT > GRID > ROW > CHART, every CHART is the child
\* of exactly one ROW and has no children, and no node is below itself
C8_PositionIsTree ==
    \A d \in RzdDashboards(cur) : WellFormed(d.position_json)

\* the dashboard is stored with six CHART nodes
C8_Witness ==
    /\ DashboardCreated
    /\ \E d \in RzdDashboards(cur) :
          /\ d.id = dashboard_id
          /\ Cardinality(ChartKeys(d.position_json)) = 6

ConnectionFixed == pc \in {"register", "charts", "dashboard", "commit"} \/ Succeeded

NamedExamples(db) == {r \in db.dbs : r.database_name = "examples"}

ExpectedUri ==
    IF env.examples_path = WinPath THEN "sqlite:///C:/bi/examples.db"
    ELSE "sqlite:////opt/bi/examples.db"

\* C9: after any number of calls of fix_examples_db_connection the store has
\* max(1, the number before the first call) rows named 'examples', and the
\* returned id is that of a row named 'examples' with the portable URI and
\* the fixed uuid
C9_ConnectionUpsert ==
    ConnectionFixed =>
        LET before_first == Cardinality(NamedExamples(initial))
        IN  /\ Cardinality(NamedExamples(cur)) =
                  IF before_first = 0 THEN 1 ELSE before_first
            /\ \E r \in NamedExamples(cur) :
                  /\ r.id = db_id
                  /\ r.sqlalchemy_uri = ExpectedUri
                  /\ r.uuid = [bytes |-> "a2dc77afe65449bbb32140f6b559a1ee"]

\* the second call, in a store that had no row named 'examples' at first
C9_Witness ==
    /\ run = 2
    /\ pc = "register"
    /\ snap.taken
    /\ NamedExamples(initial) = {}

Materialized ==
    pc \in {"clean", "fix_conn", "register", "charts", "dashboard", "commit"}
    \/ Succeeded

HasHeader(f) == env.fs[f].exists /\ env.fs[f].lines # <<>> /\ env.fs[f].lines[1] # <<>>

TableOf(f) == SubSeq(f, 1, Len(f) - 4)

\* C10: after create_examples_db the examples store has exactly one table per
\* file of CSV_FILES that exists with a header row, each with one row per
\* data row of its file, and nothing of the old examples.db
C10_FreshExamplesStore ==
    Materialized =>
        /\ examples_db.exists
        /\ {t.name : t \in examples_db.tables} =
              {TableOf(f) : f \in {g \in CsvNames : HasHeader(g)}}
        /\ \A t \in examples_db.tables :
              /\ Cardinality({u \in examples_db.tables : u.name = t.name}) = 1
              /\ \A f \in CsvNames :
                    TableOf(f) = t.name =>
                        /\ Len(t.rows) = Len(env.fs[f].lines) - 1
                        /\ Len(t.schema) = Len(env.fs[f].lines[1])
                        /\ \A k \in 1..Len(t.rows) : Len(t.rows[k]) = Len(t.schema)

\* an old examples.db was replaced: a file is missing, one has a blank first
\* line, one has data rows
C10_Witness ==
    /\ pc = "clean"
    /\ old_examples = OldExamples
    /\ ~env.fs["rzd_stations.csv"].exists
    /\ env.fs["rzd_kpi_metrics.csv"].exists /\ ~HasHeader("rzd_kpi_metrics.csv")
    /\ \E t \in examples_db.tables : Len(t.rows) = MaxRows

\* a phase of the try block has finished and the next has not started
PhaseFinished ==
    \/ pc \in {"fix_conn", "dashboard", "commit"}
    \/ pc \in {"register", "charts"} /\ n = 1

\* C11 as claimed: when a phase of the try block has finished, the rows it
\* wrote are committed
C11_PhaseCommits == PhaseFinished => committed = cur

\* C11, amended: the phases of the try block write in one transaction; while
\* they run the committed store is the store of the start of the run, and the
\* one commit after the dashboard registrar stores the rows of all of them
C11_SingleCommit ==
    /\ InTry => committed = before
    /\ Succeeded =>
          /\ committed = cur
          /\ \A i \in 1..Len(DATASETS) :
                \E t \in committed.tables : t.id = dataset_ids[DATASETS[i].key]
          /\ \A i \in 1..Len(charts) :
                \E x \in committed.slices : x.id = chart_ids[charts[i].key]
          /\ \E d \in committed.dashboards : d.id = dashboard_id
          /\ \E r \in committed.dbs : r.id = db_id

\* the commit of a second run stored rows that differ from those of its start
C11_Witness ==
    /\ Succeeded
    /\ run = 2
    /\ committed # before
    /\ RzdDashboards(before) # {}

\* the position of a statement of main in the order of its text
Rank(p) ==
    CASE p = "main" -> 0
      [] p = "create_examples_db" -> 1
      [] p = "clean" -> 2
      [] p = "fix_conn" -> 3
      [] p = "register" -> 4
      [] p = "charts" -> 5
      [] p = "dashboard" -> 6
      [] p = "commit" -> 7
      [] p = "exit" -> 8

\* a step inserts a row into, or changes a row of, the metadata store
Writes == \E x \in AllRows(cur') \cup {<<"dbs", r>> : r \in cur'.dbs} :
              x \notin AllRows(cur) \cup {<<"dbs", r>> : r \in cur.dbs}

\* C12: within a run main moves forward only, one phase at a time in the
\* order materialize, cleanup, connection, datasets, charts, dashboard,
\* commit, or leaves by an exit; a registrar loop advances its index; only a
\* new run returns to the start; and no step but a registrar's writes a row
\* to the metadata store (an exit by rollback restores rows), none of them
\* before the cleanup pass has finished
C12_LinearPipeline ==
    [][ /\ pc' # pc =>
              \/ pc' = "exit"
              \/ Rank(pc') = Rank(pc) + 1
              \/ pc = "exit" /\ pc' = "main" /\ run' = run + 1
        /\ pc' = pc => pc \in {"register", "charts"} /\ n' = n + 1
        /\ run' # run => pc = "exit"
        /\ Writes /\ pc' # "exit" =>
              pc \in {"fix_conn", "register", "charts", "dashboard"}
        /\ pc \in {"main", "create_examples_db"} => cur' = cur /\ committed' = committed
      ]_vars

\* a second run has gone through every phase up to the commit
C12_Witness ==
    /\ pc = "commit"
    /\ run = 2
    /\ Cardinality(DOMAIN dataset_ids) = Len(DATASETS)
    /\ Cardinality(DOMAIN chart_ids) = Len(charts)
    /\ cur # before

Collected == build_status \in {"pack", "exit 0"}

StartsWith(s, prefix) == Len(s) >= Len(prefix) /\ SubSeq(s, 1, Len(prefix)) = prefix

ArchiveUnder(e, dir) == StartsWith(e.archive_path, RELEASE_NAME \o "/" \o dir \o "/")

ExtraNames == {INCLUDE_EXTRA[i] : i \in 1..Len(INCLUDE_EXTRA)}

UriFor(path) ==
    CASE path = WinPath   -> "sqlite:///C:/bi/examples.db"
      [] path = PosixPath -> "sqlite:////opt/bi/examples.db"
      [] path = OtherPath -> "sqlite:///D:/portable/examples.db"

\* C14: a call of fix_uri that returns True leaves the row named 'examples'
\* with the URI of the current examples.db path, forward slashes only; a call
\* that follows one that returned True for the same path writes nothing; and
\* a call changes nothing but the sqlalchemy_uri of that row
C14_FixUriIdempotent ==
    [][ fix_uri_ret' # fix_uri_ret =>
          /\ (env.superset_db /\ fix_uri_ret'.success) =>
                \A r \in NamedExamples(committed') :
                    r.sqlalchemy_uri = UriFor(env.examples_path)
          /\ (/\ fix_uri_ret.called
              /\ fix_uri_ret.success
              /\ fix_uri_ret.new_uri = UriFor(env.examples_path)) =>
                /\ ~fix_uri_ret'.updated
                /\ committed' = committed
          /\ Cardinality(committed'.dbs) = Cardinality(committed.dbs)
          /\ \A r \in committed.dbs :
                IF r.database_name = "examples"
                THEN \E u \in {UriFor(env.examples_path), r.sqlalchemy_uri} :
                        [r EXCEPT !.sqlalchemy_uri = u] \in committed'.dbs
                ELSE r \in committed'.dbs
          /\ [committed' EXCEPT !.dbs = {}] = [committed EXCEPT !.dbs = {}]
          /\ fix_uri_ret'.updated = (committed' # committed)
          /\ ~env.superset_db => ~fix_uri_ret'.success
      ]_vars

\* a third call, after the release was moved to a Windows path and the
\* second call rewrote the URI of the one row named 'examples'
C14_Witness ==
    /\ fix_uri_ret.called
    /\ fix_uri_ret.calls = 3
    /\ fix_uri_ret.success
    /\ ~fix_uri_ret.updated
    /\ env.examples_path = WinPath
    /\ \E r \in committed.dbs :
          r.database_name = "examples" /\ r.sqlalchemy_uri = "sqlite:///C:/bi/examples.db"
    /\ \E r \in committed.dbs : r.database_name = "main"

MainIds == {stations[i].id : i \in {j \in 1..Len(stations) : stations[j].station_class = 1}}

\* C15: every route goes from a smaller to a larger station id, no two routes
\* join the same pair of stations, both ends of a route are main stations,
\* and the route ids are 1..n in the order of creation
C15_RoutesNotDuplicated ==
    routes.returned =>
        LET rs == routes.list IN
        /\ \A i \in 1..Len(rs) :
              /\ rs[i].id = i
              /\ rs[i].origin_id < rs[i].dest_id
              /\ rs[i].origin_id \in MainIds
              /\ rs[i].dest_id \in MainIds
              /\ \A k \in 1..Len(stations) :
                    /\ stations[k].id = rs[i].origin_id => stations[k].name = rs[i].origin_name
                    /\ stations[k].id = rs[i].dest_id => stations[k].name = rs[i].dest_name
        /\ \A i, j \in 1..Len(rs) :
              i # j => {rs[i].origin_id, rs[i].dest_id} # {rs[j].origin_id, rs[j].dest_id}

\* routes between the main stations of a list that also holds cargo and
\* sorting stations, so that the ids of the main stations have gaps
C15_Witness ==
    /\ routes.returned
    /\ Len(routes.list) >= 10
    /\ Cardinality(MainIds) = MaxCities
    /\ Len(stations) > MaxCities
    /\ \E i \in 1..Len(routes.list) : routes.list[i].dest_id > MaxCities

RoutesAt(id) ==
    {i \in 1..Len(routes.list) :
        routes.list[i].origin_id = id \/ routes.list[i].dest_id = id}

\* C16: with six main stations or more, every main station is an end of at
\* least three routes
C16_AtLeastThreeRoutes ==
    (routes.returned /\ Cardinality(MainIds) >= 6) =>
        \A id \in MainIds : Cardinality(RoutesAt(id)) >= 3

RegNames == {"rzd_stations", "rzd_monthly_stats", "rzd_cargo_types"}

\* C17: the store never holds two tables rows of one of the three names; a
\* run of register_rzd_datasets.py leaves every tables row it finds as it is
\* and adds a row only for a name that has none, and when it ends with
\* status 0 each of the three names has its one row
C17_CreatesOnlyMissing ==
    [][ /\ \A name \in RegNames : Cardinality(MetaRows(committed', name)) <= 1
        /\ reg' # reg =>
              /\ committed.tables \subseteq committed'.tables
              /\ \A t \in committed'.tables \ committed.tables :
                    /\ t.table_name \in RegNames
                    /\ MetaRows(committed, t.table_name) = {}
              /\ reg'.status = 0 =>
                    \A name \in RegNames : Cardinality(MetaRows(committed', name)) = 1
              /\ reg'.status = 1 => committed' = committed
              /\ [committed' EXCEPT !.tables = {}, !.dbs = {}]
                    = [committed EXCEPT !.tables = {}, !.dbs = {}]
      ]_vars

\* a second run of register_rzd_datasets.py, after a run that created
\* datasets and a run of the seeding script, found the three datasets there
C17_Witness ==
    /\ reg.called
    /\ reg.runs = 2
    /\ reg.status = 0
    /\ reg.created = {}
    /\ snap.taken
    /\ \E t \in committed.tables : t.table_name = "rzd_incidents"
    /\ \E t \in initial.tables : t.table_name = "rzd_monthly_stats"

\* every link has its dashboard and its chart, every column its dataset,
\* every chart of a dataset its dataset
NoDangling(db) ==
    /\ \A l \in db.dashboard_slices :
          /\ \E d \in db.dashboards : d.id = l.dashboard_id
          /\ \E x \in db.slices : x.id = l.slice_id
    /\ \A c \in db.table_columns : \E t \in db.tables : t.id = c.table_id
    /\ \A x \in db.slices :
          x.datasource_type = "table" => \E t \in db.tables : t.id = x.datasource_id

\* C18: after the cleanup pass on a store without dangling references no
\* dataset is named like 'rzd_%', no dashboard has the slug 'rzd_analytics',
\* every link has its dashboard and its chart, every column its dataset, and
\* no chart of a dataset refers to a dataset the pass deleted
C18_CleanupLeavesNoDangling ==
    (AfterCleanup /\ NoDangling(before)) =>
        /\ \A t \in cur.tables : ~LikeRzd(t.table_name)
        /\ \A d \in cur.dashboards : d.slug # "rzd_analytics"
        /\ NoDangling(cur)
        /\ \A x \in cur.slices :
              x.datasource_type = "table" =>
                  x.datasource_id \notin {t.id : t \in before.tables \ cur.tables}

\* the cleanup pass deleted a dataset named like 'rzd_%' and a chart that was
\* on a user dashboard, with its link, and kept another chart with its link
C18_Witness ==
    /\ AfterCleanup
    /\ NoDangling(before)
    /\ \E l \in before.dashboard_slices : l \notin cur.dashboard_slices /\ l.slice_id = 2
    /\ \E l \in cur.dashboard_slices : l.slice_id = 1
    /\ \E t \in before.tables : t.table_name = "rzdata"

\* the values of column i in the first SampleRows data rows of a file
Sampled(file, i) ==
    {file.lines[k + 1][i] :
        k \in {j \in 1..(Len(file.lines) - 1) :
                  j <= SampleRows /\ i <= Len(file.lines[j + 1])}}

TypeOf(vals) ==
    IF \E v \in vals : v # "" /\ ~IsInt(v) /\ ~IsFloat(v) THEN "TEXT"
    ELSE IF \E v \in vals : v # "" /\ ~IsInt(v) THEN "REAL"
    ELSE "INTEGER"

\* C19: the schema of every materialized table is one (header, type) pair
\* per header in header order, the type being TEXT iff a non-empty value
\* among the first 50 rows is no number, else REAL iff a non-empty one is no
\* integer, else INTEGER; an empty list and a list of empty values give INTEGER
C19_TypeInference ==
    /\ guess_sqlite_type(<<>>) = "INTEGER"
    /\ guess_sqlite_type(<<"", "">>) = "INTEGER"
    /\ Materialized =>
          \A f \in {g \in CsvNames : HasHeader(g)} :
              \A t \in {u \in examples_db.tables : u.name = TableOf(f)} :
                  /\ Len(t.schema) = Len(env.fs[f].lines[1])
                  /\ \A i \in 1..Len(t.schema) :
                        /\ t.schema[i][1] = env.fs[f].lines[1][i]
                        /\ t.schema[i][2] = TypeOf(Sampled(env.fs[f], i))
                  /\ t.schema = infer_schema(env.fs[f].lines[1], Tail(env.fs[f].lines))

\* a table is materialized from a file whose first 50 rows hold integers and
\* whose 51st holds text
C19_Witness ==
    /\ pc = "clean"
    /\ Len(env.fs["rzd_stations.csv"].lines) = SampleRows + 2
    /\ env.fs["rzd_stations.csv"].lines[SampleRows + 2] = <<"x1", "2.5">>
    /\ \E t \in examples_db.tables :
          /\ t.name = "rzd_stations"
          /\ t.schema = << <<"date", "INTEGER">>, <<"v", "INTEGER">> >>

\* C20: every column of a registered dataset is filterable; it cannot be
\* grouped by iff its inferred type is REAL; it is a time column iff it is
\* named 'date'; its type is STRING when it is named 'date', else INTEGER,
\* FLOAT or STRING for INTEGER, REAL or TEXT; get_columns_from_csv returns
\* these columns and the dataset registrar stores them
C20_ColumnFlags ==
    Registered =>
        \A d \in 1..Len(DATASETS) :
            LET file == env.fs[DATASETS[d].csv]
                cols == get_columns_from_csv(env.fs, DATASETS[d].csv)
            IN  /\ Len(cols) = Len(file.lines[1])
                /\ \A i \in 1..Len(cols) :
                      LET typ  == TypeOf(Sampled(file, i))
                          name == file.lines[1][i]
                      IN  /\ cols[i].column_name = name
                          /\ cols[i].filterable
                          /\ cols[i].groupby = (typ # "REAL")
                          /\ cols[i].is_dttm = (name = "date")
                          /\ cols[i].type =
                                IF name = "date" THEN "STRING"
                                ELSE CASE typ = "INTEGER" -> "INTEGER"
                                       [] typ = "REAL"    -> "FLOAT"
                                       [] typ = "TEXT"    -> "STRING"
                          /\ \E c \in cur.table_columns :
                                /\ c.table_id = dataset_ids[DATASETS[d].key]
                                /\ c.column_name = name
                                /\ c.type = cols[i].type
                                /\ c.filterable = 1
                                /\ c.groupby = (IF typ = "REAL" THEN 0 ELSE 1)
                                /\ c.is_dttm = (IF name = "date" THEN 1 ELSE 0)

\* the datasets are registered from a file whose column date holds numbers
\* with a decimal point and whose column v holds text
C20_Witness ==
    /\ pc = "charts"
    /\ env.fs["rzd_stations.csv"].lines = << <<"date", "v">>, <<"-2.5", "x1">> >>
    /\ \E c \in cur.table_columns :
          /\ c.table_id = dataset_ids["ds_stations"]
          /\ c.column_name = "date"
          /\ c.type = "STRING"
          /\ c.groupby = 0

ChecksFail == ~env.demo_dir \/ ~env.superset_db

\* C21: when the demo data directory or superset.db is missing, the step main
\* takes ends the run with status 1: no phase is entered, examples.db keeps
\* its existence and its tables, and the metadata store, committed or in a
\* connection, is left as it was
C21_FailedChecksChangeNothing ==
    [][pc = "main" /\ ChecksFail =>
          /\ pc' = "exit"
          /\ exit_status' = 1
          /\ examples_db' = examples_db
          /\ committed' = committed
          /\ cur' = cur
          /\ old_examples' = old_examples]_vars

\* a run has ended with status 1 on an installation without superset.db
\* that has an examples.db
C21_Witness ==
    /\ Failed
    /\ ~env.superset_db
    /\ env.demo_dir
    /\ examples_db = OldExamples
    /\ cur = initial

\* the directories of INCLUDE_DIRS and files of INCLUDE_FILES that are missing
MissingRequired ==
    {p \in {<<INCLUDE_DIRS[i]>> : i \in 1..Len(INCLUDE_DIRS)}
            \cup {<<INCLUDE_FILES[i]>> : i \in 1..Len(INCLUDE_FILES)} :
        ~Exists(root, p)}

MissingExtra == {i \in 1..Len(INCLUDE_EXTRA) : ~Exists(root, INCLUDE_EXTRA[i])}

\* C22: when a directory of INCLUDE_DIRS or a file of INCLUDE_FILES is
\* missing, main exits with status 1 and leaves the release directory, an
\* existing archive and the list of files as they were; when none is missing
\* it goes on whatever files of INCLUDE_EXTRA are missing, and the list it
\* collects has no entry for a missing file of INCLUDE_EXTRA
C22_ValidatesBeforeWriting ==
    [][/\ build_status = "main" /\ MissingRequired # {} =>
            /\ build_status' = "exit 1"
            /\ release' = release
            /\ files_to_pack' = files_to_pack
       /\ build_status = "main" /\ MissingRequired = {} =>
            build_status' = "collect"
       /\ build_status = "collect" =>
            /\ build_status' = "pack"
            /\ \A i \in MissingExtra : \A k \in 1..Len(files_to_pack') :
                  files_to_pack'[k].source # INCLUDE_EXTRA[i]
       /\ release' # release => build_status = "pack" /\ MissingRequired = {}]_vars

\* a build has ended with status 1 for a missing examples.db, the old
\* archive still there
C22_Witness ==
    /\ build_status = "exit 1"
    /\ ~Exists(root, <<"examples.db">>)
    /\ release = OldRelease
    /\ files_to_pack = <<>>

\* the entries of files_to_pack the walk of an included directory appended
FromDirs ==
    {files_to_pack[k].source : k \in 1..Len(files_to_pack)}
        \ ({INCLUDE_EXTRA[i] : i \in 1..Len(INCLUDE_EXTRA)}
           \cup {<<INCLUDE_FILES[i]>> : i \in 1..Len(INCLUDE_FILES)})

EndsWith(s, suffix) ==
    Len(s) >= Len(suffix) /\ SubSeq(s, Len(s) - Len(suffix) + 1, Len(s)) = suffix

\* the entries of EXCLUDE_PATTERNS without a wildcard
PlainPatterns ==
    {EXCLUDE_PATTERNS[k] : k \in 1..Len(EXCLUDE_PATTERNS)}
        \ {"*.egg-info", "*.pdb", "*.dist-info"}

\* C23: no file packed from a directory of INCLUDE_DIRS has a relative path
\* that contains an entry of EXCLUDE_PATTERNS, none ends in '.pdb' and none
\* lies in a directory whose name ends in '.dist-info' or '.egg-info'
C23_ExclusionsHonoured ==
    Collected =>
        \A f \in FromDirs :
            /\ \A p \in PlainPatterns : ~Contains(Join(f, "/"), p)
            /\ ~EndsWith(f[Len(f)], ".pdb")
            /\ \A k \in 1..(Len(f) - 1) :
                  ~EndsWith(f[k], ".dist-info") /\ ~EndsWith(f[k], ".egg-info")

\* C24: no two entries of files_to_pack have the same archive path
C24_ArchivePathsUnique ==
    Collected =>
        \A i, j \in 1..Len(files_to_pack) :
            i # j => files_to_pack[i].archive_path # files_to_pack[j].archive_path

\* the CHART nodes of a position
ChartNodes(pos) ==
    {pos[k] : k \in {x \in DOMAIN pos :
                        "type" \in DOMAIN pos[x] /\ pos[x].type = "CHART"}}

\* C25: for every CHART node of the position of the dashboard
\* 'rzd_analytics', the slices row whose id is meta.chartId has meta.sliceName
\* as its slice_name and the bytes of meta.uuid as its uuid
C25_PlaceholdersAgree ==
    pc = "commit" \/ Succeeded =>
        \A d \in RzdDashboards(cur) :
            \A node \in ChartNodes(d.position_json) :
                \E s \in cur.slices :
                    /\ s.id = node.meta.chartId
                    /\ s.slice_name = node.meta.sliceName
                    /\ s.uuid = uuid_bytes(node.meta.uuid)

====
